---- MODULE Spec2Model ----
(***************************************************************************)
(* Model of the solar ROI application (brendan-chia/SDG-XI-Hackathon).     *)
(*                                                                         *)
(* ROI engine: src/lib/utils.ts, calculateSolarROI.                        *)
(*                                                                         *)
(* JavaScript numbers are modelled as extended rationals n/d with d >= 0:  *)
(* a finite value has d > 0 and gcd(|n|, d) = 1, +Infinity is 1/0,         *)
(* -Infinity is -1/0 and NaN is 0/0.  The arithmetic is exact: the         *)
(* rounding error of IEEE-754 doubles and the sign of zero are not         *)
(* modelled.  The values undefined and null are tagged values of their     *)
(* own, converted by ToNumber where JavaScript converts them.              *)
(***************************************************************************)
EXTENDS Integers, FiniteSets, Sequences, TLC

VARIABLES inputs, results,         \* ROI engine: the last call and what it returned
          yearlyKwh, envImpact,    \* environmental impact: argument and returned record
          request, responses,      \* AI-insight endpoint: the request and the responses sent
          upstreamCalls,           \*   calls of model.generateContent
          upstreamReply,           \*   how the last call ended
          handlerPc,               \*   position of the handler
          solarResult,             \* results page: the state `results`
          billingDetails,          \*   the state billingDetails
          selectedPanelId,         \*   the state selectedPanelId
          view,                    \*   what the last render computed
          roiCalls,                \* arguments of the calls of calculateSolarROI a page made
                                   \*   in its last render or handler
          polygonPath,             \* roof drawing: the state polygonPath
          isDrawing,               \*   the state isDrawing
          calculatedArea,          \*   the state calculatedArea
          isCalculating,           \*   the state isCalculating
          error,                   \*   the state error
          showHelp,                \*   the state showHelp
          geminiApiKey,            \*   whether NEXT_PUBLIC_GEMINI_API_KEY is set
          areaReports,             \*   the calls of onAreaCalculated
          insightsPending,         \*   calls awaiting getGeminiInsights
          formInputs,              \* ROI calculator: the state `inputs`
          roiResults,              \*   the state roiResults
          hasCalculated,           \*   the state hasCalculated
          alerts,                  \*   the messages shown with alert
          roiCallCount,            \*   calls of calculateSolarROI the page made
          uploadRoofArea,          \* upload page: the state roofArea
          googleMapsKey,           \*   whether NEXT_PUBLIC_GOOGLE_MAPS_API_KEY is set
          address,                 \*   the state address (Null: a blank text)
          useCurrentLocation,      \*   the state useCurrentLocation
          isLocating,              \*   the state isLocating
          coordinates,             \*   the state coordinates
          geocodeError,            \*   the state geocodeError
          locationError,           \*   the state locationError
          geocodeRequests,         \*   runs of the geocoding effect not yet over
          positionRequests,        \*   calls of getCurrentPosition not yet answered
          reverseRequests,         \*   reverse geocoding requests not yet settled
          isAnalyzing,             \*   the state isAnalyzing
          analyzeTimers,           \*   what the pending timers of handleAnalyze captured
          sessionStorage,          \* session storage: hasResults and analysisDetails
          page,                    \* the page the browser shows
          whyInstallResults,       \* why-install page: the state `results`
          mockCalls,               \* calls of generateMockResults the pages made
          mockReturn               \* mock generator: what the last call returned

engineVars == <<inputs, results>>

impactVars == <<yearlyKwh, envImpact>>

handlerVars == <<request, responses, upstreamCalls, upstreamReply, handlerPc>>

pageVars == <<solarResult, billingDetails, selectedPanelId, view>>

drawVars ==
  <<polygonPath, isDrawing, calculatedArea, isCalculating, error, showHelp,
    geminiApiKey, areaReports, insightsPending, uploadRoofArea>>

calcVars == <<formInputs, roiResults, hasCalculated, alerts, roiCallCount>>

geoVars ==
  <<googleMapsKey, address, useCurrentLocation, isLocating, coordinates,
    geocodeError, locationError, geocodeRequests, positionRequests, reverseRequests>>

sessionVars ==
  <<isAnalyzing, analyzeTimers, sessionStorage, page, whyInstallResults, mockCalls>>

siteVars == <<geoVars, sessionVars, mockReturn>>

vars ==
  <<engineVars, impactVars, handlerVars, pageVars, roiCalls, drawVars, calcVars,
    siteVars>>

----------------------------------------------------------------------------
(* JavaScript values and arithmetic                                        *)

Abs(i) == IF i < 0 THEN -i ELSE i

Sign(i) == IF i < 0 THEN -1 ELSE IF i > 0 THEN 1 ELSE 0

RECURSIVE GCD(_, _)
GCD(a, b) == IF b = 0 THEN a ELSE GCD(b, a % b)

\* n/d divided through by g, for d > 0
LowestTerms(n, d, g) == [t |-> "number", n |-> n \div g, d |-> d \div g]

\* the number n/d in lowest terms; d = 0 gives the special values
Num(n, d) ==
  IF d = 0 THEN [t |-> "number", n |-> Sign(n), d |-> 0]
  ELSE IF d < 0 THEN LowestTerms(-n, -d, GCD(Abs(n), -d))
  ELSE LowestTerms(n, d, GCD(Abs(n), d))

Rat(n, d) == Num(n, d)

Infinity == [t |-> "number", n |-> 1, d |-> 0]

NaN == [t |-> "number", n |-> 0, d |-> 0]

Undefined == [t |-> "undefined", n |-> 0, d |-> 0]

Null == [t |-> "null", n |-> 0, d |-> 1]

IsNaN(x) == x.t = "number" /\ x.n = 0 /\ x.d = 0

\* ToNumber: undefined -> NaN, null -> +0, a number -> itself
ToNumber(v) ==
  IF v.t = "undefined" THEN NaN
  ELSE IF v.t = "null" THEN [t |-> "number", n |-> 0, d |-> 1]
  ELSE v

----------------------------------------------------------------------------
(* Numbers beyond 31 bits.  The integers of TLC are 32-bit, a double       *)
(* carries 53 bits: a finite value whose numerator or denominator does     *)
(* not fit is kept as a wide number, sign s and the naturals n and d as    *)
(* sequences of base-10000 digits, least significant first, without a      *)
(* leading zero digit (0 is the empty sequence).  A wide number is not     *)
(* reduced to lowest terms: wide numbers are compared with JsGt, never     *)
(* with =.                                                                 *)

MaxInt == 2147483647

Base == 10000

RECURSIVE BigOf(_)
BigOf(i) == IF i = 0 THEN << >> ELSE <<i % Base>> \o BigOf(i \div Base)

RECURSIVE BigToInt(_)
BigToInt(a) == IF a = << >> THEN 0 ELSE Head(a) + Base * BigToInt(Tail(a))

RECURSIVE BigTrim(_)
BigTrim(a) ==
  IF a # << >> /\ a[Len(a)] = 0 THEN BigTrim(SubSeq(a, 1, Len(a) - 1)) ELSE a

Digit(a, i) == IF i <= Len(a) THEN a[i] ELSE 0

RECURSIVE BigAddFrom(_, _, _, _)
BigAddFrom(a, b, i, s) ==
  IF i > Len(a) /\ i > Len(b) /\ s = 0 THEN << >>
  ELSE <<s % Base>> \o BigAddFrom(a, b, i + 1, Digit(a, i + 1) + Digit(b, i + 1) + s \div Base)

BigAdd(a, b) == BigAddFrom(a, b, 1, Digit(a, 1) + Digit(b, 1))

RECURSIVE BigSubFrom(_, _, _, _)
BigSubFrom(a, b, i, s) ==
  IF i > Len(a) THEN << >>
  ELSE <<s % Base>>
       \o BigSubFrom(a, b, i + 1,
                     Digit(a, i + 1) - Digit(b, i + 1) - (IF s < 0 THEN 1 ELSE 0))

\* a - b, for a >= b
BigSub(a, b) == BigTrim(BigSubFrom(a, b, 1, Digit(a, 1) - Digit(b, 1)))

RECURSIVE BigCmpFrom(_, _, _)
BigCmpFrom(a, b, i) ==
  IF i = 0 THEN 0
  ELSE IF a[i] # b[i] THEN (IF a[i] > b[i] THEN 1 ELSE -1)
  ELSE BigCmpFrom(a, b, i - 1)

\* -1, 0 or 1 as a < b, a = b or a > b
BigCmp(a, b) ==
  IF Len(a) # Len(b) THEN (IF Len(a) > Len(b) THEN 1 ELSE -1)
  ELSE BigCmpFrom(a, b, Len(a))

RECURSIVE BigScaleFrom(_, _, _, _)
BigScaleFrom(a, k, i, c) ==
  IF i > Len(a) THEN (IF c = 0 THEN << >> ELSE <<c>>)
  ELSE <<(a[i] * k + c) % Base>> \o BigScaleFrom(a, k, i + 1, (a[i] * k + c) \div Base)

\* a * k for one digit k
BigScale(a, k) == IF k = 0 THEN << >> ELSE BigScaleFrom(a, k, 1, 0)

BigShift(a) == IF a = << >> THEN << >> ELSE <<0>> \o a

RECURSIVE BigMul(_, _)
BigMul(a, b) ==
  IF b = << >> THEN << >>
  ELSE BigAdd(BigScale(a, Head(b)), BigShift(BigMul(a, Tail(b))))

\* one step of the division by b, from the division h by 2 * b
BigDivStep(h, b) ==
  IF BigCmp(h.r, b) >= 0
  THEN [q |-> 2 * h.q + 1, r |-> BigSub(h.r, b)]
  ELSE [q |-> 2 * h.q, r |-> h.r]

\* quotient (an integer of TLC) and remainder of a by b, for b > 0
RECURSIVE BigDivMod(_, _)
BigDivMod(a, b) ==
  IF BigCmp(a, b) < 0 THEN [q |-> 0, r |-> a]
  ELSE BigDivStep(BigDivMod(a, BigAdd(b, b)), b)

IsWide(x) == x.t = "wide"

IsFinite(x) == IsWide(x) \/ (x.t = "number" /\ x.d > 0)

SignOf(x) == IF IsWide(x) THEN x.s ELSE Sign(x.n)

\* x * y fits the integers of TLC
Fits(x, y) == x = 0 \/ Abs(y) <= MaxInt \div Abs(x)

\* a finite number as a wide number
Widen(x) ==
  IF IsWide(x) THEN x
  ELSE [t |-> "wide", s |-> IF x.n < 0 THEN -1 ELSE 1,
        n |-> BigOf(Abs(x.n)), d |-> BigOf(x.d)]

\* a natural within 31 bits
BigFits(a) == Len(a) <= 3 /\ (Len(a) < 3 \/ BigCmpFrom(a, <<3647, 4748, 21>>, 3) <= 0)

\* back to n/d in lowest terms as soon as both parts fit
Narrow(w) ==
  IF w.n = << >> THEN [t |-> "number", n |-> 0, d |-> 1]
  ELSE IF BigFits(w.n) /\ BigFits(w.d)
  THEN Num(w.s * BigToInt(w.n), BigToInt(w.d))
  ELSE w

\* u * v for wide u and v
WideProduct(u, v) ==
  Narrow([t |-> "wide", s |-> u.s * v.s,
          n |-> BigMul(u.n, v.n), d |-> BigMul(u.d, v.d)])

WideMul(a, b) ==
  IF ~IsFinite(a) \/ ~IsFinite(b)
  THEN (IF IsNaN(a) \/ IsNaN(b) THEN NaN ELSE Num(SignOf(a) * SignOf(b), 0))
  ELSE WideProduct(Widen(a), Widen(b))

\* u / v for wide u and v
WideQuotient(u, v) ==
  IF v.n = << >> THEN Num(IF u.n = << >> THEN 0 ELSE u.s, 0)
  ELSE Narrow([t |-> "wide", s |-> u.s * v.s,
               n |-> BigMul(u.n, v.d), d |-> BigMul(u.d, v.n)])

WideDiv(a, b) ==
  IF IsNaN(a) \/ IsNaN(b) THEN NaN
  ELSE IF ~IsFinite(a)
  THEN (IF IsFinite(b) THEN Num(a.n * (IF SignOf(b) < 0 THEN -1 ELSE 1), 0)
        ELSE NaN)
  ELSE IF ~IsFinite(b) THEN [t |-> "number", n |-> 0, d |-> 1]
  ELSE WideQuotient(Widen(a), Widen(b))

\* su/sv: the signs of two numbers; c: how their magnitudes compare
GtBySign(su, sv, c) ==
  IF su # sv THEN su > sv
  ELSE (su = 1 /\ c = 1) \/ (su = -1 /\ c = -1)

\* u > v for wide u and v
WideGreater(u, v) ==
  GtBySign(IF u.n = << >> THEN 0 ELSE u.s, IF v.n = << >> THEN 0 ELSE v.s,
           BigCmp(BigMul(u.n, v.d), BigMul(v.n, u.d)))

\* a > b for finite a and b
WideGt(a, b) == WideGreater(Widen(a), Widen(b))

\* -ceil(m) for the division m
NegCeil(m) == [t |-> "number", n |-> -(m.q + (IF m.r = << >> THEN 0 ELSE 1)), d |-> 1]

\* floor((n2 + h) / d2) for the sign s
WideFloorOf(s, n2, d2, h) ==
  IF s > 0 THEN [t |-> "number", n |-> BigDivMod(BigAdd(n2, h), d2).q, d |-> 1]
  ELSE IF BigCmp(n2, h) <= 0 THEN [t |-> "number", n |-> 0, d |-> 1]
  ELSE NegCeil(BigDivMod(BigSub(n2, h), d2))

\* floor(x + k/2) for a wide x: k = 1 rounds, k = 0 truncates downwards
WideFloor(x, k) ==
  WideFloorOf(x.s, BigAdd(x.n, x.n), BigAdd(x.d, x.d), IF k = 1 THEN x.d ELSE << >>)

----------------------------------------------------------------------------
(* Arithmetic of JavaScript numbers                                        *)

\* a * b for finite a and b; g1 = gcd(|a.n|, b.d), g2 = gcd(|b.n|, a.d), 0 for wide ones
MulReduced(a, b, g1, g2) ==
  IF g1 # 0 /\ Fits(a.n \div g1, b.n \div g2) /\ Fits(a.d \div g2, b.d \div g1)
  THEN Num((a.n \div g1) * (b.n \div g2), (a.d \div g2) * (b.d \div g1))
  ELSE WideMul(a, b)

\* a * b for numbers, cross-reduced before multiplying
MulNumbers(a, b) ==
  IF ~IsWide(a) /\ ~IsWide(b) /\ (a.d = 0 \/ b.d = 0) THEN Num(a.n * b.n, 0)
  ELSE MulReduced(a, b,
                  IF IsWide(a) \/ IsWide(b) THEN 0 ELSE GCD(Abs(a.n), b.d),
                  IF IsWide(a) \/ IsWide(b) THEN 0 ELSE GCD(Abs(b.n), a.d))

\* x * y
JsMul(x, y) == MulNumbers(ToNumber(x), ToNumber(y))

\* a / b for finite a and b # 0; g1 = gcd(|a.n|, |b.n|), g2 = gcd(b.d, a.d), 0 for wide ones
DivReduced(a, b, g1, g2) ==
  IF g1 # 0 /\ Fits(a.n \div g1, b.d \div g2) /\ Fits(a.d \div g2, b.n \div g1)
  THEN Num((IF b.n < 0 THEN -1 ELSE 1) * (a.n \div g1) * (b.d \div g2),
           (a.d \div g2) * (Abs(b.n) \div g1))
  ELSE WideDiv(a, b)

DivNumbers(a, b) ==
  IF ~IsWide(a) /\ ~IsWide(b) /\ (a.d = 0 \/ b.d = 0 \/ b.n = 0)
  THEN Num((IF b.n < 0 THEN -1 ELSE 1) * a.n * b.d, a.d * Abs(b.n))
  ELSE DivReduced(a, b,
                  IF IsWide(a) \/ IsWide(b) THEN 0 ELSE GCD(Abs(a.n), Abs(b.n)),
                  IF IsWide(a) \/ IsWide(b) THEN 0 ELSE GCD(b.d, a.d))

\* x / y
JsDiv(x, y) == DivNumbers(ToNumber(x), ToNumber(y))

\* a > b for finite a and b; g = gcd(a.d, b.d), 0 for wide ones
GtReduced(a, b, g) ==
  IF g # 0 /\ Fits(a.n, b.d \div g) /\ Fits(b.n, a.d \div g)
  THEN a.n * (b.d \div g) > b.n * (a.d \div g)
  ELSE WideGt(a, b)

GtNumbers(a, b) ==
  /\ ~IsNaN(a)
  /\ ~IsNaN(b)
  /\ IF ~IsFinite(a) \/ ~IsFinite(b)
     THEN /\ a # b
          /\ \/ a = Infinity
             \/ ~IsFinite(b) /\ b.n = -1
     ELSE GtReduced(a, b, IF IsWide(a) \/ IsWide(b) THEN 0 ELSE GCD(a.d, b.d))

\* x > y; false when either side is NaN
JsGt(x, y) == GtNumbers(ToNumber(x), ToNumber(y))

\* x <= y
JsLe(x, y) == ~IsNaN(ToNumber(x)) /\ ~IsNaN(ToNumber(y)) /\ ~JsGt(x, y)

\* variant: x != null, which null fails as well as undefined
IsNotUndefined_looseInequality(v) == v.t # "undefined" /\ v.t # "null"

\* x !== undefined
IsNotUndefined(v) == v.t # "undefined"

MinNumbers(a, b) ==
  IF IsNaN(a) \/ IsNaN(b) THEN NaN
  ELSE IF GtNumbers(a, b) THEN b ELSE a

MaxNumbers(a, b) ==
  IF IsNaN(a) \/ IsNaN(b) THEN NaN
  ELSE IF GtNumbers(b, a) THEN b ELSE a

\* Math.min(x, y): NaN when either argument converts to NaN
MathMin(x, y) == MinNumbers(ToNumber(x), ToNumber(y))

\* Math.max(x, y): NaN when either argument converts to NaN
MathMax(x, y) == MaxNumbers(ToNumber(x), ToNumber(y))

\* x + y and x - y of finite numbers within 31 bits
JsAdd(x, y) == Num(x.n * y.d + y.n * x.d, x.d * y.d)

JsSub(x, y) == Num(x.n * y.d - y.n * x.d, x.d * y.d)

\* x ?? y
Nullish(x, y) == IF x.t \in {"undefined", "null"} THEN y ELSE x

\* b * sqrt(3) >= D, from D, D * D and 3 * b * b
SurdCovers(b, D, D2, B2) ==
  IF b.n >= 0 THEN D.n <= 0 \/ ~GtNumbers(D2, B2)
  ELSE D.n <= 0 /\ ~GtNumbers(B2, D2)

\* a + b * sqrt(3) >= k, for finite a and b and an integer k
SurdAtLeast(a, b, k) ==
  SurdCovers(b, JsSub(Rat(k, 1), a),
             MulNumbers(JsSub(Rat(k, 1), a), JsSub(Rat(k, 1), a)),
             MulNumbers(Rat(3, 1), MulNumbers(b, b)))

\* the integer k within span of f with h + b * sqrt(3) in [k, k + 1)
SurdFloor(h, b, f, span) ==
  Rat(CHOOSE k \in (f - span)..(f + span) :
        SurdAtLeast(h, b, k) /\ ~SurdAtLeast(h, b, k + 1), 1)

\* floor(h + b * sqrt(3))
SurdFloorOf(h, b) == SurdFloor(h, b, h.n \div h.d, (2 * Abs(b.n)) \div b.d + 2)

\* Math.round(a + b * sqrt(3))
MathRoundSurd(a, b) == SurdFloorOf(JsAdd(a, Rat(1, 2)), b)

\* Math.floor of a number
FloorNumber(a) ==
  IF IsWide(a) THEN WideFloor(a, 0)
  ELSE IF a.d = 0 THEN a
  ELSE Num(a.n \div a.d, 1)

\* variant: Math.floor in place of Math.round
MathRound_floor(x) == FloorNumber(ToNumber(x))

\* the integer nearest a, a half rounding towards +Infinity
RoundNumber(a) ==
  IF ~IsWide(a) /\ a.d = 0 THEN a
  ELSE IF IsWide(a) \/ Abs(a.n) > (MaxInt - a.d) \div 2 THEN WideFloor(Widen(a), 1)
  ELSE Num((2 * a.n + a.d) \div (2 * a.d), 1)

\* Math.round(x): the integer nearest x, a half rounding towards +Infinity
MathRound(x) == RoundNumber(ToNumber(x))

----------------------------------------------------------------------------
(* src/lib/utils.ts: calculateSolarROI                                     *)

\* variant: the shading losses are left out of the product
dailyGeneration_noShading(inp) ==
  JsMul(JsMul(inp.roofArea, inp.panelEfficiency), inp.solarIrradiance)

\* variant: shadingFactor taken as the shaded fraction, 1 - shadingFactor applied
dailyGeneration_shadedFraction(inp) ==
  JsMul(JsMul(JsMul(inp.roofArea, inp.panelEfficiency), inp.solarIrradiance),
        Rat(inp.shadingFactor.d - inp.shadingFactor.n, inp.shadingFactor.d))

\* Step 1: roofArea * panelEfficiency * solarIrradiance * shadingFactor
dailyGeneration(inp) ==
  JsMul(JsMul(JsMul(inp.roofArea, inp.panelEfficiency), inp.solarIrradiance),
        inp.shadingFactor)

\* variant: a 30-day month
averageDaysPerMonth_30 == Rat(30, 1)

averageDaysPerMonth == Rat(3044, 100)

\* Step 2
monthlyGeneration(inp) == JsMul(dailyGeneration(inp), averageDaysPerMonth)

\* variant: the consumption cap is never applied
usableMonthlyGeneration_uncapped(inp) == monthlyGeneration(inp)

\* Step 3: the cap applies whenever monthlyConsumption !== undefined
usableMonthlyGeneration(inp) ==
  IF IsNotUndefined(inp.monthlyConsumption)
  THEN MathMin(monthlyGeneration(inp), inp.monthlyConsumption)
  ELSE monthlyGeneration(inp)

monthlySavings(inp) == JsMul(usableMonthlyGeneration(inp), inp.electricityRate)

\* Step 4
annualSavings(inp) == JsMul(monthlySavings(inp), Rat(12, 1))

\* variant: the division is not guarded by annualSavings > 0
paybackPeriod_unguarded(inp) == JsDiv(inp.systemCost, annualSavings(inp))

\* variant: the operands of the division are swapped
paybackPeriod_swapped(inp) ==
  IF JsGt(annualSavings(inp), Rat(0, 1))
  THEN JsDiv(annualSavings(inp), inp.systemCost)
  ELSE Infinity

\* Step 5
paybackPeriod(inp) ==
  IF JsGt(annualSavings(inp), Rat(0, 1))
  THEN JsDiv(inp.systemCost, annualSavings(inp))
  ELSE Infinity

\* variant: the division is not guarded by systemCost > 0
roiPercentage_unguarded(inp) ==
  JsMul(JsDiv(annualSavings(inp), inp.systemCost), Rat(100, 1))

\* Step 6
roiPercentage(inp) ==
  IF JsGt(inp.systemCost, Rat(0, 1))
  THEN JsMul(JsDiv(annualSavings(inp), inp.systemCost), Rat(100, 1))
  ELSE Rat(0, 1)

\* Math.round(v * 100) / 100
Round2(v) == JsDiv(MathRound(JsMul(v, Rat(100, 1))), Rat(100, 1))

\* variant: annualSavings is derived from the already rounded monthlySavings
calculateSolarROI_chainedRounding(inp) ==
  [ dailyGeneration   |-> Round2(dailyGeneration(inp)),
    monthlyGeneration |-> Round2(monthlyGeneration(inp)),
    monthlySavings    |-> Round2(monthlySavings(inp)),
    annualSavings     |-> Round2(JsMul(Round2(monthlySavings(inp)), Rat(12, 1))),
    paybackPeriod     |-> Round2(paybackPeriod(inp)),
    roiPercentage     |-> Round2(roiPercentage(inp)) ]

calculateSolarROI(inp) ==
  [ dailyGeneration   |-> Round2(dailyGeneration(inp)),
    monthlyGeneration |-> Round2(monthlyGeneration(inp)),
    monthlySavings    |-> Round2(monthlySavings(inp)),
    annualSavings     |-> Round2(annualSavings(inp)),
    paybackPeriod     |-> Round2(paybackPeriod(inp)),
    roiPercentage     |-> Round2(roiPercentage(inp)) ]

----------------------------------------------------------------------------
(* Invocations of calculateSolarROI                                        *)

\* bounds of the input grids
MaxAreaSteps == 2

MaxCostSteps == 1

SolarROIInputs(areas, effs, irrs, shades, rates, costs, caps) ==
  [ roofArea : areas, panelEfficiency : effs, solarIrradiance : irrs,
    shadingFactor : shades, electricityRate : rates, systemCost : costs,
    monthlyConsumption : caps ]

\* household-scale inputs around the documented example, in and out of domain
HouseholdInputs ==
  SolarROIInputs({Rat(-1, 1), Rat(0, 1), Rat(50, 1)},
                 {Rat(0, 1), Rat(1, 5), Rat(3, 2)},
                 {Rat(4, 1), Rat(5, 1)},
                 {Rat(0, 1), Rat(1, 8), Rat(1, 1)},
                 {Rat(-2, 5), Rat(0, 1), Rat(2, 5)},
                 {Rat(0, 1)} \cup {Rat(30000 + k, 1) : k \in 0..MaxCostSteps},
                 {Undefined, Null, Rat(-5, 1), Rat(400, 1), Rat(2000, 1)})

\* small inputs on a fine grid, where results differ by less than a cent
SmallInputs ==
  SolarROIInputs({Rat(k, 100) : k \in 0..MaxAreaSteps},
                 {Rat(1, 5), Rat(1, 4)},
                 {Rat(5, 1)},
                 {Rat(1, 8), Rat(1, 1)},
                 {Rat(2, 5)},
                 {Rat(1, 1), Rat(2, 1)},
                 {Undefined, Rat(400, 1)})

InputSet == HouseholdInputs \cup SmallInputs

NoResults == [ dailyGeneration |-> Undefined, monthlyGeneration |-> Undefined,
               monthlySavings |-> Undefined, annualSavings |-> Undefined,
               paybackPeriod |-> Undefined, roiPercentage |-> Undefined ]

NoInputs == [ roofArea |-> Undefined, panelEfficiency |-> Undefined,
              solarIrradiance |-> Undefined, shadingFactor |-> Undefined,
              electricityRate |-> Undefined, systemCost |-> Undefined,
              monthlyConsumption |-> Undefined ]

\* each component before anything has happened to it
EngineIdle == inputs = NoInputs /\ results = NoResults

NoImpact == Undefined

ImpactIdle == yearlyKwh = Undefined /\ envImpact = NoImpact

HandlerIdle ==
  /\ request = Undefined
  /\ responses = << >>
  /\ upstreamCalls = 0
  /\ upstreamReply = "none"
  /\ handlerPc = "idle"

\* src/lib/panelOptions.ts
PANEL_OPTIONS ==
  << [ id |-> "helios-pro", brand |-> "Helios", panelEfficiency |-> Rat(22, 100),
       pricePerKw |-> Rat(2100, 1), fixedInstallFee |-> Rat(3500, 1),
       solarIrradiance |-> Rat(52, 10), panelWattage |-> Rat(420, 1) ],
     [ id |-> "lumina-max", brand |-> "Lumina", panelEfficiency |-> Rat(205, 1000),
       pricePerKw |-> Rat(1950, 1), fixedInstallFee |-> Rat(3000, 1),
       solarIrradiance |-> Rat(50, 10), panelWattage |-> Rat(400, 1) ],
     [ id |-> "solis-lite", brand |-> "Solis", panelEfficiency |-> Rat(195, 1000),
       pricePerKw |-> Rat(1750, 1), fixedInstallFee |-> Rat(2500, 1),
       solarIrradiance |-> Rat(48, 10), panelWattage |-> Rat(385, 1) ] >>

\* the results page before its effects have run: it shows "Loading results..."
PageIdle ==
  /\ solarResult = Null
  /\ billingDetails = Null
  /\ selectedPanelId = PANEL_OPTIONS[1].id
  /\ view = Null

\* the roof drawing component as it is mounted
DrawMounted ==
  /\ polygonPath = << >>
  /\ isDrawing = FALSE
  /\ calculatedArea = Null
  /\ isCalculating = FALSE
  /\ error = Null
  /\ showHelp = TRUE
  /\ areaReports = << >>
  /\ insightsPending = 0
  /\ uploadRoofArea = Null

DrawIdle == DrawMounted /\ geminiApiKey = TRUE

\* the texts of the form of the ROI calculator page, character by character
DefaultInputs ==
  [ roofArea |-> <<"5", "0">>,
    panelEfficiency |-> <<"0", ".", "2", "0">>,
    solarIrradiance |-> <<"5", ".", "0">>,
    electricityRate |-> <<"0", ".", "4", "0">>,
    systemCost |-> <<"3", "0", "0", "0", "0">>,
    monthlyConsumption |-> << >> ]

\* the ROI calculator page as it is mounted
CalcIdle ==
  /\ formInputs = DefaultInputs
  /\ roiResults = Null
  /\ hasCalculated = FALSE
  /\ alerts = << >>
  /\ roiCallCount = 0

\* a text kept in a state that can be null, such as `error`
Message(text) == [t |-> "string", text |-> text]

\* the upload page as it is mounted, with nothing typed
GeoMounted ==
  /\ address = Null
  /\ useCurrentLocation = FALSE
  /\ isLocating = FALSE
  /\ coordinates = Null
  /\ geocodeError = Null
  /\ locationError = Null
  /\ geocodeRequests = << >>
  /\ positionRequests = 0
  /\ reverseRequests = 0

\* session storage without entries
EmptyStorage == [hasResults |-> Null, analysisDetails |-> Null]

\* a browser session that has made no analysis and loaded no page with results
\* no analysis is under way and no page has called generateMockResults
NotAnalyzing ==
  /\ isAnalyzing = FALSE
  /\ analyzeTimers = << >>
  /\ whyInstallResults = Null
  /\ mockCalls = 0

\* a fresh session that shows the page at `route`
SessionAt(route) ==
  /\ NotAnalyzing
  /\ sessionStorage = EmptyStorage
  /\ page = route

SessionIdle == SessionAt("/")

SiteAt(route) ==
  GeoMounted /\ googleMapsKey = TRUE /\ SessionAt(route) /\ mockReturn = Null

SiteIdle == SiteAt("/")

Init ==
  /\ inputs \in InputSet
  /\ results = NoResults
  /\ ImpactIdle
  /\ HandlerIdle
  /\ PageIdle
  /\ DrawIdle
  /\ CalcIdle
  /\ SiteIdle
  /\ roiCalls = << >>

\* a call of calculateSolarROI with the inputs `inp`
Invoke(inp) ==
  /\ inp \in InputSet
  /\ inputs' = inp
  /\ results' = calculateSolarROI(inp)
  /\ UNCHANGED <<impactVars, handlerVars, pageVars, roiCalls, drawVars, calcVars, siteVars>>

Calculate == results = NoResults /\ Invoke(inputs)

\* a further call with one field of the inputs changed
SetRoofArea(v) ==
  results # NoResults /\ v # inputs.roofArea
    /\ Invoke([inputs EXCEPT !.roofArea = v])

SetPanelEfficiency(v) ==
  results # NoResults /\ v # inputs.panelEfficiency
    /\ Invoke([inputs EXCEPT !.panelEfficiency = v])

SetSolarIrradiance(v) ==
  results # NoResults /\ v # inputs.solarIrradiance
    /\ Invoke([inputs EXCEPT !.solarIrradiance = v])

SetShadingFactor(v) ==
  results # NoResults /\ v # inputs.shadingFactor
    /\ Invoke([inputs EXCEPT !.shadingFactor = v])

SetElectricityRate(v) ==
  results # NoResults /\ v # inputs.electricityRate
    /\ Invoke([inputs EXCEPT !.electricityRate = v])

SetSystemCost(v) ==
  results # NoResults /\ v # inputs.systemCost
    /\ Invoke([inputs EXCEPT !.systemCost = v])

SetMonthlyConsumption(v) ==
  results # NoResults /\ v # inputs.monthlyConsumption
    /\ Invoke([inputs EXCEPT !.monthlyConsumption = v])

RoofAreas == {i.roofArea : i \in InputSet}

PanelEfficiencies == {i.panelEfficiency : i \in InputSet}

SolarIrradiances == {i.solarIrradiance : i \in InputSet}

ShadingFactors == {i.shadingFactor : i \in InputSet}

ElectricityRates == {i.electricityRate : i \in InputSet}

SystemCosts == {i.systemCost : i \in InputSet}

MonthlyConsumptions == {i.monthlyConsumption : i \in InputSet}

Next ==
  \/ Calculate
  \/ \E v \in RoofAreas : SetRoofArea(v)
  \/ \E v \in PanelEfficiencies : SetPanelEfficiency(v)
  \/ \E v \in SolarIrradiances : SetSolarIrradiance(v)
  \/ \E v \in ShadingFactors : SetShadingFactor(v)
  \/ \E v \in ElectricityRates : SetElectricityRate(v)
  \/ \E v \in SystemCosts : SetSystemCost(v)
  \/ \E v \in MonthlyConsumptions : SetMonthlyConsumption(v)

Spec == Init /\ [][Next]_vars

----------------------------------------------------------------------------
(* Properties of calculateSolarROI                                         *)

Called == results # NoResults

Zero == Rat(0, 1)

\* x >= y, for numbers that are not NaN
Ge(x, y) == ~IsNaN(x) /\ ~IsNaN(y) /\ ~JsGt(y, x)

\* the ROI Input invariant of the data model
Valid(inp) ==
  /\ JsGt(inp.roofArea, Zero)
  /\ JsGt(inp.panelEfficiency, Zero) /\ Ge(Rat(1, 1), inp.panelEfficiency)
  /\ JsGt(inp.solarIrradiance, Zero)
  /\ Ge(inp.shadingFactor, Zero) /\ Ge(Rat(1, 1), inp.shadingFactor)
  /\ JsGt(inp.electricityRate, Zero)
  /\ JsGt(inp.systemCost, Zero)
  /\ \/ inp.monthlyConsumption = Undefined
     \/ inp.monthlyConsumption.t = "number" /\ JsGt(inp.monthlyConsumption, Zero)

\* r is a whole number of cents
IsCents(r) == IsFinite(r) /\ 100 % r.d = 0

Cents(r) == r.n * (100 \div r.d)

\* x = Whole(x) + FracNum(x) / x.d with 0 <= FracNum(x) < x.d
Whole(x) == x.n \div x.d

FracNum(x) == x.n % x.d

\* the cents of r beyond the whole part of x
CentsBeyond(r, x) == Cents(r) - 100 * Whole(x)

\* r is a 2-decimal value no further than half a cent from x
WithinHalfCent(r, x) ==
  /\ IsCents(r)
  /\ IsFinite(x)
  /\ 2 * Abs(CentsBeyond(r, x) * x.d - 100 * FracNum(x)) <= x.d

\* the product of the four generation factors, and the monthly figure
ExactDaily(inp) ==
  JsMul(inp.roofArea,
        JsMul(inp.panelEfficiency, JsMul(inp.solarIrradiance, inp.shadingFactor)))

ExactMonthly(inp) == JsMul(ExactDaily(inp), Rat(3044, 100))

\* C1: for every valid ROI Input the returned dailyGeneration is
\* roofArea * panelEfficiency * solarIrradiance * shadingFactor and the
\* returned monthlyGeneration is that product * 30.44, each to 2 decimals.
C1_GenerationFormula ==
  (Called /\ Valid(inputs)) =>
    /\ WithinHalfCent(results.dailyGeneration, ExactDaily(inputs))
    /\ WithinHalfCent(results.monthlyGeneration, ExactMonthly(inputs))

\* a valid input with shading losses whose product is not a whole number of cents
C1_Witness ==
  /\ Called
  /\ Valid(inputs)
  /\ inputs.shadingFactor = Rat(1, 8)
  /\ ~IsCents(ExactDaily(inputs))
  /\ results.monthlyGeneration = Rat(4, 100)

\* C2: with a numeric monthlyConsumption cap, monthlySavings is
\* monthlyConsumption * electricityRate when consumption < generation and
\* monthlyGeneration * electricityRate when consumption >= generation.
C2_ConsumptionCap ==
  (Called /\ inputs.monthlyConsumption.t = "number") =>
    IF JsGt(ExactMonthly(inputs), inputs.monthlyConsumption)
    THEN WithinHalfCent(results.monthlySavings,
                        JsMul(inputs.monthlyConsumption, inputs.electricityRate))
    ELSE WithinHalfCent(results.monthlySavings,
                        JsMul(ExactMonthly(inputs), inputs.electricityRate))

\* the documented example with the cap of 400 kWh binding
C2_Witness ==
  /\ Called
  /\ inputs.monthlyConsumption = Rat(400, 1)
  /\ JsGt(ExactMonthly(inputs), inputs.monthlyConsumption)
  /\ inputs.electricityRate = Rat(2, 5)
  /\ results.monthlySavings = Rat(160, 1)

\* C3 as stated: with monthlyConsumption null or undefined the full
\* monthlyGeneration is used, monthlySavings = monthlyGeneration * rate
\* (read on inputs whose other fields are valid).
C3_NullMeansAbsent ==
  (/\ Called
   /\ inputs.monthlyConsumption \in {Undefined, Null}
   /\ Valid([inputs EXCEPT !.monthlyConsumption = Undefined])) =>
    WithinHalfCent(results.monthlySavings,
                   JsMul(ExactMonthly(inputs), inputs.electricityRate))

\* C3 amended: only undefined means absent; with undefined the full
\* monthlyGeneration is used, and null is a supplied cap that Math.min
\* converts to 0, so usable generation is min(monthlyGeneration, 0).
C3_OnlyUndefinedMeansAbsent ==
  /\ (Called /\ inputs.monthlyConsumption = Undefined) =>
       WithinHalfCent(results.monthlySavings,
                      JsMul(ExactMonthly(inputs), inputs.electricityRate))
  /\ (Called /\ inputs.monthlyConsumption = Null) =>
       WithinHalfCent(results.monthlySavings,
                      JsMul(IF JsGt(ExactMonthly(inputs), Zero)
                            THEN Zero ELSE ExactMonthly(inputs),
                            inputs.electricityRate))

\* a null cap on a generating system: the savings are 0, not generation * rate
C3_Witness ==
  /\ Called
  /\ inputs.monthlyConsumption = Null
  /\ JsGt(ExactMonthly(inputs), Rat(1, 1))
  /\ JsGt(inputs.electricityRate, Zero)
  /\ results.monthlySavings = Zero

\* C4: systemCost = 0 gives roiPercentage = 0 (not infinite, not NaN), and
\* annualSavings = 0 gives paybackPeriod = +Infinity.
C4_DegenerateCases ==
  Called =>
    /\ inputs.systemCost = Zero => results.roiPercentage = Zero
    /\ annualSavings(inputs) = Zero => results.paybackPeriod = Infinity

\* no cost and no savings: both sentinels at once, where 0 / 0 would be NaN
C4_Witness ==
  /\ Called
  /\ inputs.systemCost = Zero
  /\ annualSavings(inputs) = Zero
  /\ results.roiPercentage = Zero
  /\ results.paybackPeriod = Infinity

\* r is Math.round's rounding of 100 * x, over 100: a half goes towards +Infinity
RoundedHalfUp(r, x) ==
  IF IsFinite(x)
  THEN /\ IsCents(r)
       /\ (2 * CentsBeyond(r, x) - 1) * x.d <= 200 * FracNum(x)
       /\ 200 * FracNum(x) < (2 * CentsBeyond(r, x) + 1) * x.d
  ELSE r = x

\* r is 100 * x rounded to the nearest integer, a half going away from zero, over 100
RoundedHalfAwayFromZero(r, x) ==
  IF IsFinite(x)
  THEN /\ IsCents(r)
       /\ IF x.n >= 0
          THEN /\ (2 * CentsBeyond(r, x) - 1) * x.d <= 200 * FracNum(x)
               /\ 200 * FracNum(x) < (2 * CentsBeyond(r, x) + 1) * x.d
          ELSE /\ (2 * CentsBeyond(r, x) - 1) * x.d < 200 * FracNum(x)
               /\ 200 * FracNum(x) <= (2 * CentsBeyond(r, x) + 1) * x.d
  ELSE r = x

\* C5 as stated: each returned field is its own unrounded pipeline value
\* rounded to 2 decimals, a half going away from zero.
C5_HalfAwayFromZero ==
  Called =>
    /\ RoundedHalfAwayFromZero(results.dailyGeneration, dailyGeneration(inputs))
    /\ RoundedHalfAwayFromZero(results.monthlyGeneration, monthlyGeneration(inputs))
    /\ RoundedHalfAwayFromZero(results.monthlySavings, monthlySavings(inputs))
    /\ RoundedHalfAwayFromZero(results.annualSavings, annualSavings(inputs))
    /\ RoundedHalfAwayFromZero(results.paybackPeriod, paybackPeriod(inputs))
    /\ RoundedHalfAwayFromZero(results.roiPercentage, roiPercentage(inputs))

\* C5 amended: each returned field is its own unrounded pipeline value
\* rounded to 2 decimals with a half going towards +Infinity (which is away
\* from zero only for values >= 0); no field is derived from a rounded field.
C5_HalfUpIndependently ==
  Called =>
    /\ RoundedHalfUp(results.dailyGeneration, dailyGeneration(inputs))
    /\ RoundedHalfUp(results.monthlyGeneration, monthlyGeneration(inputs))
    /\ RoundedHalfUp(results.monthlySavings, monthlySavings(inputs))
    /\ RoundedHalfUp(results.annualSavings, annualSavings(inputs))
    /\ RoundedHalfUp(results.paybackPeriod, paybackPeriod(inputs))
    /\ RoundedHalfUp(results.roiPercentage, roiPercentage(inputs))

\* a negative exact half: -0.125 is returned as -0.12
C5_Witness ==
  /\ Called
  /\ dailyGeneration(inputs) = Rat(-1, 8)
  /\ results.dailyGeneration = Rat(-12, 100)

ReferenceInputs ==
  [ roofArea |-> Rat(50, 1), panelEfficiency |-> Rat(20, 100),
    solarIrradiance |-> Rat(5, 1), shadingFactor |-> Rat(1, 1),
    electricityRate |-> Rat(40, 100), systemCost |-> Rat(30000, 1),
    monthlyConsumption |-> Undefined ]

\* C6: the reference input without a cap returns dailyGeneration 50,
\* monthlyGeneration 1522.00, monthlySavings 608.80, annualSavings 7305.60,
\* paybackPeriod 4.11 and roiPercentage 24.35.
C6_ReferenceScenario ==
  (Called /\ inputs = ReferenceInputs) =>
    results = [ dailyGeneration   |-> Rat(50, 1),
                monthlyGeneration |-> Rat(152200, 100),
                monthlySavings    |-> Rat(60880, 100),
                annualSavings     |-> Rat(730560, 100),
                paybackPeriod     |-> Rat(411, 100),
                roiPercentage     |-> Rat(2435, 100) ]

C6_Witness == Called /\ inputs = ReferenceInputs

\* C7: the reference input with monthlyConsumption = 400 returns
\* monthlySavings 160.00, annualSavings 1920.00, paybackPeriod 15.63 (the
\* exact half 15.625 rounded up) and roiPercentage 6.40.
C7_CappedScenario ==
  (Called /\ inputs = [ReferenceInputs EXCEPT !.monthlyConsumption = Rat(400, 1)]) =>
    /\ results.monthlySavings = Rat(16000, 100)
    /\ results.annualSavings = Rat(192000, 100)
    /\ results.paybackPeriod = Rat(1563, 100)
    /\ results.roiPercentage = Rat(640, 100)

C7_Witness ==
  /\ Called
  /\ inputs = [ReferenceInputs EXCEPT !.monthlyConsumption = Rat(400, 1)]
  /\ paybackPeriod(inputs) = Rat(15625, 1000)

InputFields == { "roofArea", "panelEfficiency", "solarIrradiance", "shadingFactor",
                 "electricityRate", "systemCost", "monthlyConsumption" }

GenerationFactors == { "roofArea", "panelEfficiency", "solarIrradiance", "shadingFactor" }

\* this step calls again with field f strictly increased and all else fixed
Increases(f) ==
  /\ Called
  /\ JsGt(inputs'[f], inputs[f])
  /\ \A g \in InputFields \ {f} : inputs'[g] = inputs[g]

NonNegativeFactors(inp) == \A f \in GenerationFactors : Ge(inp[f], Zero)

\* C8 as stated: increasing one of roofArea, panelEfficiency, solarIrradiance,
\* shadingFactor (all else fixed, valid inputs) strictly increases the
\* returned dailyGeneration.
C8_StrictlyIncreasing ==
  [][\A f \in GenerationFactors :
       (Increases(f) /\ Valid(inputs) /\ Valid(inputs')) =>
         JsGt(results'.dailyGeneration, results.dailyGeneration)]_vars

\* C8 amended: with the four factors non-negative, increasing one of them
\* (all else fixed) never decreases the returned dailyGeneration; the returned
\* value stays the same when another factor is 0 or when the increase is
\* lost in the rounding to 2 decimals.
C8_NeverDecreasing ==
  [][\A f \in GenerationFactors :
       (Increases(f) /\ NonNegativeFactors(inputs) /\ NonNegativeFactors(inputs')) =>
         Ge(results'.dailyGeneration, results.dailyGeneration)]_vars

\* a valid input reached by increasing roofArea alone from another valid
\* input: the product grew and the returned dailyGeneration did not
C8_Witness ==
  /\ Called
  /\ Valid(inputs)
  /\ \E v \in RoofAreas :
       LET before == [inputs EXCEPT !.roofArea = v]
       IN /\ before \in InputSet
          /\ Valid(before)
          /\ JsGt(inputs.roofArea, v)
          /\ JsGt(dailyGeneration(inputs), dailyGeneration(before))
          /\ calculateSolarROI(before).dailyGeneration = results.dailyGeneration

\* C9 as stated: increasing systemCost (all else fixed, valid inputs) strictly
\* increases the returned paybackPeriod and strictly decreases the returned
\* roiPercentage.
C9_StrictInSystemCost ==
  [][(Increases("systemCost") /\ Valid(inputs) /\ Valid(inputs')) =>
       /\ JsGt(results'.paybackPeriod, results.paybackPeriod)
       /\ JsGt(results.roiPercentage, results'.roiPercentage)]_vars

\* C9 amended: for valid inputs, increasing systemCost (all else fixed) never
\* decreases the returned paybackPeriod and never increases the returned
\* roiPercentage; both stay the same when the savings are 0 or when the
\* change is lost in the rounding to 2 decimals.
C9_MonotoneInSystemCost ==
  [][(Increases("systemCost") /\ Valid(inputs) /\ Valid(inputs')) =>
       /\ Ge(results'.paybackPeriod, results.paybackPeriod)
       /\ Ge(results.roiPercentage, results'.roiPercentage)]_vars

\* a valid input reached by raising systemCost alone from another valid
\* input: the unrounded payback grew, the returned payback and ROI did not move
C9_Witness ==
  /\ Called
  /\ Valid(inputs)
  /\ \E v \in SystemCosts :
       LET before == [inputs EXCEPT !.systemCost = v]
       IN /\ before \in InputSet
          /\ Valid(before)
          /\ JsGt(inputs.systemCost, v)
          /\ JsGt(paybackPeriod(inputs), paybackPeriod(before))
          /\ calculateSolarROI(before).paybackPeriod = results.paybackPeriod
          /\ calculateSolarROI(before).roiPercentage = results.roiPercentage

ResultFields == { "dailyGeneration", "monthlyGeneration", "monthlySavings",
                  "annualSavings", "paybackPeriod", "roiPercentage" }

\* a record of the six result fields, each holding a number
CompleteResult(r) ==
  /\ DOMAIN r = ResultFields
  /\ \A f \in ResultFields : r[f].t = "number"

\* C10 as stated: every call returns a complete six-field result, and
\* roofArea = 0 yields dailyGeneration 0, monthlySavings 0, annualSavings 0
\* and paybackPeriod = +Infinity (read with a positive rate and system cost).
C10_ZeroAreaZeroSavings ==
  Called =>
    /\ CompleteResult(results)
    /\ (/\ inputs.roofArea = Zero
        /\ JsGt(inputs.electricityRate, Zero)
        /\ JsGt(inputs.systemCost, Zero)) =>
         /\ results.dailyGeneration = Zero
         /\ results.monthlySavings = Zero
         /\ results.annualSavings = Zero
         /\ results.paybackPeriod = Infinity

\* C10 amended: every call returns a complete six-field result; roofArea = 0
\* yields dailyGeneration 0 and, when monthlyConsumption is undefined or not
\* negative, monthlySavings 0, annualSavings 0 and paybackPeriod = +Infinity;
\* under a negative cap monthlySavings is monthlyConsumption * electricityRate.
C10_TotalAndZeroArea ==
  Called =>
    /\ CompleteResult(results)
    /\ inputs.roofArea = Zero =>
         /\ results.dailyGeneration = Zero
         /\ IF JsGt(Zero, inputs.monthlyConsumption)
            THEN WithinHalfCent(results.monthlySavings,
                                JsMul(inputs.monthlyConsumption, inputs.electricityRate))
            ELSE /\ results.monthlySavings = Zero
                 /\ results.annualSavings = Zero
                 /\ results.paybackPeriod = Infinity

\* zero area with out-of-domain efficiency and no cost: still a full result
C10_Witness ==
  /\ Called
  /\ inputs.roofArea = Zero
  /\ JsGt(inputs.panelEfficiency, Rat(1, 1))
  /\ inputs.systemCost = Zero
  /\ ~JsGt(Zero, inputs.monthlyConsumption)
  /\ results.paybackPeriod = Infinity

----------------------------------------------------------------------------
(* src/pages/results.tsx, src/unnamed/part_002:                            *)
(* calculateEnvironmentalImpact                                            *)

\* Malaysia grid CO2 factor, kg CO2 per kWh
co2PerKwh == Rat(694, 1000)

\* kg CO2 absorbed per tree per year
co2PerTree == Rat(2177, 100)

\* kg CO2 emitted per car per year
co2PerCar == Rat(4600, 1)

\* variant: the 25-year trees are derived from the yearly CO2
calculateEnvironmentalImpact_yearlyTrees(kwh) ==
  LET totalCo2PerYear == JsMul(kwh, co2PerKwh)
      totalCo225Years == JsMul(totalCo2PerYear, Rat(25, 1))
  IN [ co2PerYear   |-> totalCo2PerYear,
       co225Years   |-> totalCo225Years,
       treesPerYear |-> JsDiv(totalCo2PerYear, co2PerTree),
       trees25Years |-> JsDiv(totalCo2PerYear, co2PerTree),
       carsPerYear  |-> JsDiv(totalCo2PerYear, co2PerCar) ]

\* the function of the results page
calculateEnvironmentalImpact(kwh) ==
  LET totalCo2PerYear == JsMul(kwh, co2PerKwh)
      totalCo225Years == JsMul(totalCo2PerYear, Rat(25, 1))
  IN [ co2PerYear   |-> totalCo2PerYear,
       co225Years   |-> totalCo225Years,
       treesPerYear |-> JsDiv(totalCo2PerYear, co2PerTree),
       trees25Years |-> JsDiv(totalCo225Years, co2PerTree),
       carsPerYear  |-> JsDiv(totalCo2PerYear, co2PerCar) ]

\* the copy of the why-install page, which adds homesPerMonth
calculateEnvironmentalImpact_whyInstall(kwh) ==
  LET totalCo2PerYear == JsMul(kwh, co2PerKwh)
      totalCo225Years == JsMul(totalCo2PerYear, Rat(25, 1))
  IN [ co2PerYear    |-> totalCo2PerYear,
       co225Years    |-> totalCo225Years,
       treesPerYear  |-> JsDiv(totalCo2PerYear, co2PerTree),
       trees25Years  |-> JsDiv(totalCo225Years, co2PerTree),
       carsPerYear   |-> JsDiv(totalCo2PerYear, co2PerCar),
       homesPerMonth |-> JsDiv(kwh, Rat(300, 1)) ]

\* the why-install page always passes this yearly generation
averageYearlyGeneration == 7500

MaxKwhSteps == 60

\* whole kWh per year, in steps of 125 up to averageYearlyGeneration and beyond
YearlyKwhValues == { Rat(125 * k, 1) : k \in 0..MaxKwhSteps }

InitImpact ==
  /\ yearlyKwh \in YearlyKwhValues
  /\ envImpact = NoImpact
  /\ EngineIdle
  /\ HandlerIdle
  /\ PageIdle
  /\ DrawIdle
  /\ CalcIdle
  /\ SiteIdle
  /\ roiCalls = << >>

\* the results page renders the impact of its yearly generation
ResultsImpact ==
  /\ envImpact' = calculateEnvironmentalImpact(yearlyKwh)
  /\ UNCHANGED <<yearlyKwh, engineVars, handlerVars, pageVars, roiCalls, drawVars, calcVars, siteVars>>

\* the why-install page renders the impact of its yearly generation
WhyInstallImpact ==
  /\ envImpact' = calculateEnvironmentalImpact_whyInstall(yearlyKwh)
  /\ UNCHANGED <<yearlyKwh, engineVars, handlerVars, pageVars, roiCalls, drawVars, calcVars, siteVars>>

NextImpact == ResultsImpact \/ WhyInstallImpact

SpecImpact == InitImpact /\ [][NextImpact]_vars

\* C11: calculateEnvironmentalImpact(yearlyKwh) returns co2PerYear =
\* yearlyKwh * 0.694, co225Years = co2PerYear * 25, treesPerYear =
\* co2PerYear / 21.77, trees25Years = co225Years / 21.77 and carsPerYear =
\* co2PerYear / 4600; for 7500 kWh that is 5205, 130125, 5977 to the nearest
\* tree and 1.13 to the nearest hundredth of a car.
C11_EnvironmentalImpact ==
  envImpact # NoImpact =>
    LET k == yearlyKwh.n
    IN /\ envImpact.co2PerYear = Rat(694 * k, 1000)
       /\ envImpact.co225Years = Rat(25 * 694 * k, 1000)
       /\ envImpact.treesPerYear = Rat(694 * k, 21770)
       /\ envImpact.trees25Years = Rat(25 * 694 * k, 21770)
       /\ envImpact.carsPerYear = Rat(694 * k, 4600000)
       /\ k = 7500 =>
            /\ envImpact.co2PerYear = Rat(5205, 1)
            /\ envImpact.co225Years = Rat(130125, 1)
            /\ MathRound(envImpact.trees25Years) = Rat(5977, 1)
            /\ Round2(envImpact.carsPerYear) = Rat(113, 100)

C11_Witness ==
  /\ envImpact # NoImpact
  /\ yearlyKwh = Rat(averageYearlyGeneration, 1)
  /\ envImpact.co225Years = Rat(130125, 1)

----------------------------------------------------------------------------
(* src/pages/api/gemini-analyze.ts: handler                                *)

\* a value that is neither undefined, null, a number nor an array
String == [t |-> "string"]

\* an array of `len` elements
Array(len) == [t |-> "array", len |-> len]

\* ToBoolean; the strings and arrays of the model are non-empty or objects
Truthy(v) ==
  CASE v.t = "undefined" -> FALSE
    [] v.t = "null" -> FALSE
    [] v.t = "number" -> ~IsNaN(v) /\ v.n # 0
    [] OTHER -> TRUE

\* x.toFixed(digits) of a finite x: the nearest decimal with `digits`
\* fraction digits, the larger in magnitude of two equally near
ToFixed(x, digits) ==
  LET scale == IF digits = 0 THEN 1 ELSE IF digits = 1 THEN 10 ELSE 100
      m == IF x.n < 0 THEN Rat(-x.n, x.d) ELSE x
      r == JsDiv(MathRound(JsMul(m, Rat(scale, 1))), Rat(scale, 1))
  IN [t |-> "string", value |-> IF x.n < 0 THEN Rat(-r.n, r.d) ELSE r,
      fractionDigits |-> digits, grouped |-> FALSE, suffix |-> ""]

\* n.toLocaleString() of an integer n: its digits, grouped
ToLocaleString(x) ==
  [t |-> "string", value |-> x, fractionDigits |-> 0, grouped |-> TRUE,
   suffix |-> ""]

\* `${text} unit`
WithUnit(text, unit) == [text EXCEPT !.suffix = unit]

\* Math.floor(x) of a finite x
MathFloor(x) == Num(x.n \div x.d, 1)

\* variant: the number of coordinates is not checked
InvalidRequestData_anyLength(body) ==
  ~Truthy(body.area) \/ ~Truthy(body.coordinates)

\* !area || !coordinates || coordinates.length < 3
InvalidRequestData(body) ==
  \/ ~Truthy(body.area)
  \/ ~Truthy(body.coordinates)
  \/ body.coordinates.len < 3

\* the structured response built when the text of the service is not JSON
fallbackResponse(area) ==
  LET usableArea == JsMul(area, Rat(8, 10))
      panelArea == Rat(17, 10)
      estimatedPanels == MathFloor(JsDiv(usableArea, panelArea))
      panelWattage == Rat(400, 1)
      estimatedCapacity == JsDiv(JsMul(estimatedPanels, panelWattage), Rat(1000, 1))
      peakSunHours == Rat(45, 10)
      estimatedAnnualProduction ==
        MathRound(JsMul(JsMul(estimatedCapacity, peakSunHours), Rat(365, 1)))
  IN [ insights |-> "text.substring(0, 300) + ...",
       recommendations |-> 3,
       solarPotential |->
         [ estimatedPanels |-> estimatedPanels,
           estimatedCapacity |-> WithUnit(ToFixed(estimatedCapacity, 1), " kW"),
           estimatedAnnualProduction |->
             WithUnit(ToLocaleString(estimatedAnnualProduction), " kWh") ] ]

MaxCoordinates == 4

Methods == { "GET", "POST", "PUT" }

Areas == { Undefined, Null, String, Rat(0, 1), Rat(2, 1), Rat(50, 1), Rat(100, 1),
           Rat(301, 2), Rat(-50, 1) }

CoordinateLists == { Undefined, Null } \cup { Array(n) : n \in 0..MaxCoordinates }

Requests ==
  [ method : Methods, geminiApiKey : BOOLEAN,
    body : [ area : Areas, coordinates : CoordinateLists ] ]

InitHandler ==
  /\ request \in Requests
  /\ responses = << >>
  /\ upstreamCalls = 0
  /\ upstreamReply = "none"
  /\ handlerPc = "start"
  /\ EngineIdle
  /\ ImpactIdle
  /\ PageIdle
  /\ DrawIdle
  /\ CalcIdle
  /\ SiteIdle
  /\ roiCalls = << >>

\* res.status(status).json(body), after which the handler returns
Respond(status, body) ==
  /\ responses' = Append(responses, [status |-> status, body |-> body])
  /\ handlerPc' = "done"

\* the handler from its entry to its first response or to the call of the service
handler ==
  /\ handlerPc = "start"
  /\ IF request.method # "POST"
     THEN Respond(405, [error |-> "Method not allowed"])
          /\ UNCHANGED <<upstreamCalls, upstreamReply>>
     ELSE IF ~request.geminiApiKey
     THEN Respond(500, [error |-> "Gemini API key not configured"])
          /\ UNCHANGED <<upstreamCalls, upstreamReply>>
     ELSE IF InvalidRequestData(request.body)
     THEN Respond(400, [error |-> "Invalid request data"])
          /\ UNCHANGED <<upstreamCalls, upstreamReply>>
     ELSE IF request.body.area.t # "number"
     THEN \* area.toFixed is not a function: a TypeError, caught by the outer catch
          Respond(500, [error |-> "error.message"])
          /\ UNCHANGED <<upstreamCalls, upstreamReply>>
     ELSE /\ upstreamCalls' = upstreamCalls + 1
          /\ upstreamReply' = "pending"
          /\ handlerPc' = "awaiting"
          /\ UNCHANGED responses
  /\ UNCHANGED <<request, engineVars, impactVars, pageVars, roiCalls, drawVars, calcVars, siteVars>>

\* the service answers with a text that holds JSON, sent on as it is
generateContentResolvesJson ==
  /\ handlerPc = "awaiting"
  /\ upstreamReply' = "json"
  /\ Respond(200, [parsedResponse |-> "JSON.parse(jsonText)"])
  /\ UNCHANGED <<request, upstreamCalls, engineVars, impactVars, pageVars, roiCalls, drawVars, calcVars, siteVars>>

\* the service answers with a text that JSON.parse rejects
generateContentResolvesText ==
  /\ handlerPc = "awaiting"
  /\ upstreamReply' = "text"
  /\ Respond(200, fallbackResponse(request.body.area))
  /\ UNCHANGED <<request, upstreamCalls, engineVars, impactVars, pageVars, roiCalls, drawVars, calcVars, siteVars>>

\* the call of the service fails: it rejects, or response.text() throws
generateContentRejects(isError) ==
  /\ handlerPc = "awaiting"
  /\ upstreamReply' = "rejected"
  /\ Respond(500, [error |-> IF isError THEN "error.message"
                             ELSE "Failed to analyze roof area"])
  /\ UNCHANGED <<request, upstreamCalls, engineVars, impactVars, pageVars, roiCalls, drawVars, calcVars, siteVars>>

NextHandler ==
  \/ handler
  \/ generateContentResolvesJson
  \/ generateContentResolvesText
  \/ \E isError \in BOOLEAN : generateContentRejects(isError)

SpecHandler == InitHandler /\ [][NextHandler]_vars

\* the response sent last
LastResponse == responses[Len(responses)]

\* C12: on upstream failure of the generative-AI service the endpoint
\* responds with a fallback solarPotential: estimatedPanels =
\* floor(area * 0.8 / 1.7), estimatedCapacity = estimatedPanels * 400 / 1000
\* kW and estimatedAnnualProduction = round(estimatedCapacity * 4.5 * 365) kWh.
C12_FallbackOnUpstreamFailure ==
  (handlerPc = "done" /\ upstreamReply \in {"text", "rejected"}
     /\ JsGt(request.body.area, Rat(0, 1))) =>
    LET area == request.body.area
        panels == (8 * area.n) \div (17 * area.d)
    IN /\ "solarPotential" \in DOMAIN LastResponse.body
       /\ LastResponse.body.solarPotential.estimatedPanels = Rat(panels, 1)
       /\ LastResponse.body.solarPotential.estimatedCapacity.value
            = Rat(400 * panels, 1000)
       /\ LastResponse.body.solarPotential.estimatedAnnualProduction.value
            = Rat(657 * panels, 1)

\* the request is a POST, a key is configured, area is truthy and there are
\* at least 3 coordinates
CallConditions ==
  /\ request.method = "POST"
  /\ request.geminiApiKey
  /\ request.body.area.t \in {"number", "string"}
  /\ request.body.area.t = "number" => request.body.area.n # 0
  /\ request.body.coordinates.t = "array"
  /\ request.body.coordinates.len >= 3

\* the error of the first check that fails: method, key, body
ExpectedError ==
  IF request.method # "POST" THEN 405
  ELSE IF ~request.geminiApiKey THEN 500
  ELSE 400

----------------------------------------------------------------------------
(* src/lib/mockData.ts: generateMockResults                                *)

orientations == <<"South", "South-East", "South-West", "East", "West", "North">>

months ==
  << "January", "February", "March", "April", "May", "June",
     "July", "August", "September", "October", "November", "December" >>

\* Math.sin((index - 2) * Math.PI / 6) for index = 0..11, as u + v * sqrt(3)
seasonalSine ==
  << [u |-> Rat(0, 1), v |-> Rat(-1, 2)], [u |-> Rat(-1, 2), v |-> Rat(0, 1)],
     [u |-> Rat(0, 1), v |-> Rat(0, 1)], [u |-> Rat(1, 2), v |-> Rat(0, 1)],
     [u |-> Rat(0, 1), v |-> Rat(1, 2)], [u |-> Rat(1, 1), v |-> Rat(0, 1)],
     [u |-> Rat(0, 1), v |-> Rat(1, 2)], [u |-> Rat(1, 2), v |-> Rat(0, 1)],
     [u |-> Rat(0, 1), v |-> Rat(0, 1)], [u |-> Rat(-1, 2), v |-> Rat(0, 1)],
     [u |-> Rat(0, 1), v |-> Rat(-1, 2)], [u |-> Rat(-1, 1), v |-> Rat(0, 1)] >>

orientationFactor(orientation) ==
  IF orientation = "South" THEN Rat(10, 10)
  ELSE IF orientation \in {"South-East", "South-West"} THEN Rat(9, 10)
  ELSE IF orientation \in {"East", "West"} THEN Rat(8, 10)
  ELSE Rat(6, 10)

\* Math.round(rest * seasonalMultiplier), seasonalMultiplier = 1 + 0.5 * sine
seasonalKwh(rest, sine) ==
  MathRoundSurd(JsMul(rest, JsAdd(Rat(1, 1), JsMul(Rat(1, 2), sine.u))),
                JsMul(rest, JsMul(Rat(1, 2), sine.v)))

\* variant: the shaded share is subtracted the wrong way round
monthlyKwh_signFlipped(index, systemSize, shadingPercentage, orientation) ==
  seasonalKwh(JsMul(JsMul(JsMul(systemSize, Rat(8, 10)),
                          JsDiv(JsSub(shadingPercentage, Rat(100, 1)), Rat(100, 1))),
                    orientationFactor(orientation)),
              seasonalSine[index])

\* kwh of the month at `index` (from 1): Math.round(baseGeneration *
\* seasonalMultiplier * shadingFactor * orientationFactor)
monthlyKwh(index, systemSize, shadingPercentage, orientation) ==
  seasonalKwh(JsMul(JsMul(JsMul(systemSize, Rat(8, 10)),
                          JsDiv(JsSub(Rat(100, 1), shadingPercentage), Rat(100, 1))),
                    orientationFactor(orientation)),
              seasonalSine[index])

\* the kwh of the entries of a monthly series
kwhOf(series) == [index \in DOMAIN series |-> series[index].kwh]

\* list.reduce((sum, x) => sum + x, 0)
RECURSIVE SumOf(_)
SumOf(list) == IF list = << >> THEN Rat(0, 1) ELSE JsAdd(Head(list), SumOf(Tail(list)))

\* estimatedSavings, from Math.round((yearlyGeneration / 12) * 0.12)
estimatedSavings(monthly) ==
  [ monthly |-> monthly,
    yearly |-> JsMul(monthly, Rat(12, 1)),
    lifetime |-> JsMul(JsMul(monthly, Rat(12, 1)), Rat(25, 1)) ]

\* the returned object
mockResult(orientation, shadingPercentage, roofArea, systemSize, kwhByMonth, savings) ==
  [ roofOrientation |-> orientation,
    shadingPercentage |-> shadingPercentage,
    monthlyGeneration |->
      [index \in DOMAIN kwhByMonth |-> [month |-> months[index], kwh |-> kwhByMonth[index]]],
    estimatedSavings |-> savings,
    roofArea |-> roofArea,
    systemSize |-> systemSize,
    paybackPeriod |-> MathRound(JsDiv(JsMul(systemSize, Rat(3000, 1)), savings.yearly)) ]

\* variant: the monthly savings are rounded down
mockGeneration_floored(orientation, shadingPercentage, roofArea, systemSize, kwhByMonth) ==
  mockResult(orientation, shadingPercentage, roofArea, systemSize, kwhByMonth,
             estimatedSavings(
               MathFloor(JsMul(JsDiv(SumOf(kwhByMonth), Rat(12, 1)), Rat(12, 100)))))

\* yearlyGeneration and the savings rounded from it
mockGeneration(orientation, shadingPercentage, roofArea, systemSize, kwhByMonth) ==
  mockResult(orientation, shadingPercentage, roofArea, systemSize, kwhByMonth,
             estimatedSavings(
               MathRound(JsMul(JsDiv(SumOf(kwhByMonth), Rat(12, 1)), Rat(12, 100)))))

mockSystem(orientation, shadingPercentage, roofArea, systemSize) ==
  mockGeneration(orientation, shadingPercentage, roofArea, systemSize,
    [index \in DOMAIN months |->
       monthlyKwh(index, systemSize, shadingPercentage, orientation)])

\* the result for the three random draws of one call
generateMockResults(orientation, shadingPercentage, roofArea) ==
  mockSystem(orientation, shadingPercentage, roofArea,
             MathFloor(JsMul(roofArea, Rat(15, 100))))

\* Math.floor(Math.random() * n): every integer from 0 to n - 1
RandomBelow(n) == { Rat(k, 1) : k \in 0..(n - 1) }

MaxMockAreaSteps == 8

\* Math.floor(Math.random() * 200) at even distances from 0 to 199
MockAreaDraws == { Rat((k * 199) \div MaxMockAreaSteps, 1) : k \in 0..MaxMockAreaSteps }

\* the draws of one call: orientation, shadingPercentage and roofArea
MockDraws ==
  { <<orientations[i], shadingPercentage, JsAdd(area, Rat(100, 1))>> :
      i \in DOMAIN orientations, shadingPercentage \in RandomBelow(30),
      area \in MockAreaDraws }

InitMock ==
  /\ mockReturn = Null
  /\ EngineIdle
  /\ ImpactIdle
  /\ HandlerIdle
  /\ PageIdle
  /\ DrawIdle
  /\ CalcIdle
  /\ GeoMounted
  /\ googleMapsKey = TRUE
  /\ SessionIdle
  /\ roiCalls = << >>

\* the call of generateMockResults, with the draws `draw`
CallGenerateMockResults(draw) ==
  /\ mockReturn = Null
  /\ mockReturn' = generateMockResults(draw[1], draw[2], draw[3])
  /\ UNCHANGED <<geoVars, sessionVars>>
  /\ UNCHANGED <<engineVars, impactVars, handlerVars, pageVars, roiCalls, drawVars, calcVars>>

NextMock == \E draw \in MockDraws : CallGenerateMockResults(draw)

SpecMock == InitMock /\ [][NextMock]_vars

----------------------------------------------------------------------------
(* src/pages/upload.tsx: the analysisDetails the upload page stores        *)

ELECTRICITY_RATE == Rat(45, 100)

\* an address, as far as the page reads it: the number of its letters
Address(letters) == [t |-> "string", letters |-> letters]

\* the consumption estimated from the letters of the address; null without one
averageMonthlyConsumptionOf(typed) ==
  IF typed = Null THEN Null
  ELSE LET normalizedLength == IF typed.letters = 0 THEN 1 ELSE typed.letters
           baseConsumption == 380
           variation == (normalizedLength % 60) - 30
       IN MathMax(Rat(250, 1), Rat(baseConsumption + variation * 4, 1))

\* JSON.stringify(billingDetails) as handleAnalyze stores it
analysisDetails(typed, manualBills, area) ==
  [ averageMonthlyConsumption |-> averageMonthlyConsumptionOf(typed),
    manualBills |-> manualBills,
    manualAverageBill |->
      IF Len(manualBills) > 0
      THEN JsDiv(SumOf(manualBills), Rat(Len(manualBills), 1))
      ELSE Null,
    electricityRate |-> ELECTRICITY_RATE,
    roofArea |-> area ]

----------------------------------------------------------------------------
(* src/pages/upload.tsx: the location of the roof                          *)
(*                                                                         *)
(* A run of the geocoding effect that got past its early return is kept in *)
(* geocodeRequests until its timer is cleared or its callback has ended:   *)
(* its stage is "timer" before the 500 ms have passed and "fetch" after,   *)
(* and it is aborted once the cleanup of the effect has run.  The effects  *)
(* run in the step of the handler whose writes they follow.                *)

MaxGeocodeRequests == 2

MaxPositionRequests == 1

MaxReverseRequests == 1

\* the texts typed as address: blank, or with 4 or 13 letters
AddressTexts == { Null, Address(4), Address(13) }

\* the location the geocoder gives for an address
Located(typed) == [t |-> "coordinates", of |-> typed.letters]

\* position.coords of the browser
CurrentPosition == [t |-> "coordinates", of |-> 0]

IsFetching(run) == run.stage = "fetch"

Aborted(run) == [run EXCEPT !.aborted = TRUE]

\* the cleanup of the effect: controller.abort() and clearTimeout(timeoutId)
cleanedUp(runs) ==
  [i \in DOMAIN SelectSeq(runs, IsFetching) |-> Aborted(SelectSeq(runs, IsFetching)[i])]

\* whether the effect gets past its early return
geocodes(typed, current) == googleMapsKey /\ typed # Null /\ ~current

\* the geocoding effect after a change of address or useCurrentLocation to
\* `typed` and `current`, the handler having written `position`, `locating`
\* and `failure` to coordinates, isLocating and geocodeError
geocodeEffect(typed, current, position, locating, failure) ==
  /\ geocodes(typed, current) => Len(cleanedUp(geocodeRequests)) < MaxGeocodeRequests
  /\ geocodeRequests' =
       IF geocodes(typed, current)
       THEN Append(cleanedUp(geocodeRequests),
                   [address |-> typed, stage |-> "timer", aborted |-> FALSE])
       ELSE cleanedUp(geocodeRequests)
  /\ isLocating' = IF geocodes(typed, current) THEN TRUE ELSE locating
  /\ geocodeError' = IF geocodes(typed, current) THEN Null ELSE failure
  /\ coordinates' =
       IF ~geocodes(typed, current) /\ typed = Null /\ ~current THEN Null ELSE position

\* no dependency of the effect changed: it does not run
noGeocodeEffect(position, locating, failure) ==
  /\ coordinates' = position
  /\ isLocating' = locating
  /\ geocodeError' = failure
  /\ UNCHANGED geocodeRequests

InitGeocode ==
  /\ GeoMounted
  /\ googleMapsKey \in BOOLEAN
  /\ SessionAt("/upload")
  /\ mockReturn = Null
  /\ EngineIdle
  /\ ImpactIdle
  /\ HandlerIdle
  /\ PageIdle
  /\ DrawIdle
  /\ CalcIdle
  /\ roiCalls = << >>

\* onChange of the address input, with the text `typed`
handleAddressChange(typed) ==
  /\ typed # address \/ useCurrentLocation
  /\ address' = typed
  /\ useCurrentLocation' = FALSE
  /\ geocodeEffect(typed, FALSE, coordinates, isLocating, geocodeError)
  /\ UNCHANGED <<googleMapsKey, locationError, positionRequests, reverseRequests>>
  /\ UNCHANGED <<sessionVars, mockReturn>>
  /\ UNCHANGED <<engineVars, impactVars, handlerVars, pageVars, roiCalls, drawVars, calcVars>>

\* requestCurrentLocation up to the call of getCurrentPosition; supported:
\* whether the browser has navigator.geolocation
requestCurrentLocation(supported) ==
  /\ IF useCurrentLocation
     THEN /\ useCurrentLocation' = FALSE
          /\ locationError' = Null
          /\ geocodeEffect(address, FALSE, coordinates, isLocating, geocodeError)
          /\ UNCHANGED positionRequests
     ELSE IF ~supported
     THEN /\ locationError' = Message("Geolocation is not supported in this browser.")
          /\ noGeocodeEffect(coordinates, isLocating, geocodeError)
          /\ UNCHANGED <<useCurrentLocation, positionRequests>>
     ELSE /\ positionRequests < MaxPositionRequests
          /\ locationError' = Null
          /\ positionRequests' = positionRequests + 1
          /\ noGeocodeEffect(coordinates, TRUE, geocodeError)
          /\ UNCHANGED useCurrentLocation
  /\ UNCHANGED <<googleMapsKey, address, reverseRequests>>
  /\ UNCHANGED <<sessionVars, mockReturn>>
  /\ UNCHANGED <<engineVars, impactVars, handlerVars, pageVars, roiCalls, drawVars, calcVars>>

\* the success callback of getCurrentPosition up to its fetch
positionSucceeds ==
  /\ positionRequests > 0
  /\ googleMapsKey => reverseRequests < MaxReverseRequests
  /\ positionRequests' = positionRequests - 1
  /\ useCurrentLocation' = TRUE
  /\ IF useCurrentLocation
     THEN noGeocodeEffect(CurrentPosition, FALSE, geocodeError)
     ELSE geocodeEffect(address, TRUE, CurrentPosition, FALSE, geocodeError)
  /\ reverseRequests' = IF googleMapsKey THEN reverseRequests + 1 ELSE reverseRequests
  /\ UNCHANGED <<googleMapsKey, address, locationError>>
  /\ UNCHANGED <<sessionVars, mockReturn>>
  /\ UNCHANGED <<engineVars, impactVars, handlerVars, pageVars, roiCalls, drawVars, calcVars>>

\* the error callback of getCurrentPosition
positionFails ==
  /\ positionRequests > 0
  /\ positionRequests' = positionRequests - 1
  /\ locationError' = Message("Unable to access your location.")
  /\ useCurrentLocation' = FALSE
  /\ IF useCurrentLocation
     THEN geocodeEffect(address, FALSE, coordinates, FALSE, geocodeError)
     ELSE noGeocodeEffect(coordinates, FALSE, geocodeError)
  /\ UNCHANGED <<googleMapsKey, address, reverseRequests>>
  /\ UNCHANGED <<sessionVars, mockReturn>>
  /\ UNCHANGED <<engineVars, impactVars, handlerVars, pageVars, roiCalls, drawVars, calcVars>>

\* the reverse geocoding request settles; formatted: the formatted_address
\* of its first result, Null without one or when the request fails
reverseGeocodeSettles(formatted) ==
  /\ reverseRequests > 0
  /\ reverseRequests' = reverseRequests - 1
  /\ address' = IF formatted # Null THEN formatted ELSE address
  /\ IF formatted # Null /\ formatted # address
     THEN geocodeEffect(formatted, useCurrentLocation, coordinates, isLocating,
                        geocodeError)
     ELSE noGeocodeEffect(coordinates, isLocating, geocodeError)
  /\ UNCHANGED <<googleMapsKey, useCurrentLocation, locationError, positionRequests>>
  /\ UNCHANGED <<sessionVars, mockReturn>>
  /\ UNCHANGED <<engineVars, impactVars, handlerVars, pageVars, roiCalls, drawVars, calcVars>>

\* the 500 ms of the i-th run have passed: its callback calls fetch
geocodeTimerFires(i) ==
  /\ geocodeRequests[i].stage = "timer"
  /\ geocodeRequests' = [geocodeRequests EXCEPT ![i].stage = "fetch"]
  /\ UNCHANGED <<googleMapsKey, address, useCurrentLocation, isLocating, coordinates,
                 geocodeError, locationError, positionRequests, reverseRequests>>
  /\ UNCHANGED <<sessionVars, mockReturn>>
  /\ UNCHANGED <<engineVars, impactVars, handlerVars, pageVars, roiCalls, drawVars, calcVars>>

\* the outcomes of a request that is not aborted: a location is "found",
\* the status is not OK ("notFound"), the first result has no location
\* ("noLocation"), or the response is not ok or fetch rejects ("failed")
GeocodeOutcomes == {"found", "notFound", "noLocation", "failed"}

\* list without its i-th element
Without(list, i) == SubSeq(list, 1, i - 1) \o SubSeq(list, i + 1, Len(list))

\* the rest of the callback of the i-th run, from the end of its fetch; an
\* aborted fetch rejects with an AbortError
geocodeFetchSettles(i, outcome) ==
  /\ geocodeRequests[i].stage = "fetch"
  /\ geocodeRequests[i].aborted <=> outcome = "aborted"
  /\ geocodeRequests' = Without(geocodeRequests, i)
  /\ coordinates' =
       IF outcome = "found" THEN Located(geocodeRequests[i].address)
       ELSE IF outcome = "notFound" THEN Null
       ELSE coordinates
  /\ geocodeError' =
       IF outcome = "notFound"
       THEN Message("Address not found. Try refining your search.")
       ELSE IF outcome = "failed"
       THEN Message("Unable to locate address. Please try again.")
       ELSE geocodeError
  /\ isLocating' = FALSE
  /\ UNCHANGED <<googleMapsKey, address, useCurrentLocation, locationError,
                 positionRequests, reverseRequests>>
  /\ UNCHANGED <<sessionVars, mockReturn>>
  /\ UNCHANGED <<engineVars, impactVars, handlerVars, pageVars, roiCalls, drawVars, calcVars>>

NextGeocode ==
  \/ \E typed \in AddressTexts : handleAddressChange(typed)
  \/ \E supported \in BOOLEAN : requestCurrentLocation(supported)
  \/ positionSucceeds
  \/ positionFails
  \/ \E formatted \in {Null, Address(13)} : reverseGeocodeSettles(formatted)
  \/ \E i \in DOMAIN geocodeRequests : geocodeTimerFires(i)
  \/ \E i \in DOMAIN geocodeRequests, outcome \in GeocodeOutcomes \cup {"aborted"} :
       geocodeFetchSettles(i, outcome)

SpecGeocode == InitGeocode /\ [][NextGeocode]_vars

\* every timer fires, every request settles, every call of
\* getCurrentPosition is answered
GeocodeFairness ==
  /\ WF_vars(\E i \in DOMAIN geocodeRequests : geocodeTimerFires(i))
  /\ WF_vars(\E i \in DOMAIN geocodeRequests, outcome \in GeocodeOutcomes \cup {"aborted"} :
               geocodeFetchSettles(i, outcome))
  /\ WF_vars(positionSucceeds \/ positionFails)
  /\ WF_vars(\E formatted \in {Null, Address(13)} : reverseGeocodeSettles(formatted))

SpecGeocodeFair == SpecGeocode /\ GeocodeFairness

----------------------------------------------------------------------------
(* src/pages/results.tsx: Results                                          *)

ROI_MIN == 17

ROI_MAX == 25

\* x === y for numbers
StrictEquals(x, y) == ~IsNaN(x) /\ x = y

\* PANEL_OPTIONS.find((panel) => panel.id === id) ?? PANEL_OPTIONS[0]
selectedPanelOf(id) ==
  IF \E i \in DOMAIN PANEL_OPTIONS : PANEL_OPTIONS[i].id = id
  THEN PANEL_OPTIONS[CHOOSE i \in DOMAIN PANEL_OPTIONS :
                       /\ PANEL_OPTIONS[i].id = id
                       /\ \A j \in 1..(i - 1) : PANEL_OPTIONS[j].id # id]
  ELSE PANEL_OPTIONS[1]

baselinePanel == PANEL_OPTIONS[1]

\* variant: the irradiance ratio is left out
panelOutputFactor_efficiencyOnly(panel, baseline) ==
  JsDiv(panel.panelEfficiency, baseline.panelEfficiency)

panelOutputFactor(panel, baseline) ==
  JsMul(JsDiv(panel.panelEfficiency, baseline.panelEfficiency),
        JsDiv(Nullish(panel.solarIrradiance,
                      Nullish(baseline.solarIrradiance, Rat(5, 1))),
              Nullish(baseline.solarIrradiance, Rat(5, 1))))

\* variant: the fixed fee is left out
installationFee_perKwOnly(panel, survey) == JsMul(panel.pricePerKw, survey.systemSize)

\* the fee of the selected panel
installationFee(panel, survey) ==
  JsAdd(panel.fixedInstallFee, JsMul(panel.pricePerKw, survey.systemSize))

\* the fee of a panel of the comparison
comparisonFee(panel, survey) ==
  JsAdd(panel.fixedInstallFee, JsMul(panel.pricePerKw, survey.systemSize))

\* billingDetails?.electricityRate ?? 0.45
electricityRateOf(billing) ==
  IF billing = Null THEN Rat(45, 100) ELSE Nullish(billing.electricityRate, Rat(45, 100))

manualAverageBillOf(billing) ==
  IF billing # Null /\ Len(billing.manualBills) > 0
  THEN Nullish(billing.manualAverageBill,
               JsDiv(SumOf(billing.manualBills), Rat(Len(billing.manualBills), 1)))
  ELSE Null

manualConsumptionFromBills(billing) ==
  IF Truthy(manualAverageBillOf(billing)) /\ JsGt(electricityRateOf(billing), Rat(0, 1))
  THEN JsDiv(manualAverageBillOf(billing), electricityRateOf(billing))
  ELSE Undefined

monthlyConsumptionInput(billing) ==
  Nullish(manualConsumptionFromBills(billing),
          IF billing = Null THEN Undefined
          ELSE Nullish(billing.averageMonthlyConsumption, Undefined))

\* the argument of calculateSolarROI for a panel and a system cost
roiArguments(panel, survey, billing, cost) ==
  [ roofArea |-> JsMul(survey.roofArea, Rat(92903, 1000000)),
    panelEfficiency |-> panel.panelEfficiency,
    solarIrradiance |-> Nullish(panel.solarIrradiance, Rat(5, 1)),
    shadingFactor |-> JsDiv(JsSub(Rat(100, 1), survey.shadingPercentage), Rat(100, 1)),
    electricityRate |-> electricityRateOf(billing),
    systemCost |-> cost,
    monthlyConsumption |-> monthlyConsumptionInput(billing) ]

\* variant: the clamp is written into the record the engine returned
displayPanelFinancials_inPlace(panelFinancials) ==
  [ engine |-> [panelFinancials EXCEPT !.roiPercentage =
                  MathMin(Rat(ROI_MAX, 1), MathMax(Rat(ROI_MIN, 1), @))],
    display |-> [panelFinancials EXCEPT !.roiPercentage =
                   MathMin(Rat(ROI_MAX, 1), MathMax(Rat(ROI_MIN, 1), @))] ]

\* the record the engine returned, as it is after the clamp, and the copy displayed
displayPanelFinancials(panelFinancials) ==
  [ engine |-> panelFinancials,
    display |-> [panelFinancials EXCEPT !.roiPercentage =
                   MathMin(Rat(ROI_MAX, 1), MathMax(Rat(ROI_MIN, 1), @))] ]

\* the entry of the comparison for one panel
comparisonEntry(panel, summary) ==
  [panel |-> panel, paybackPeriod |-> Nullish(summary.paybackPeriod, Null)]

panelFinancialComparisons(survey, billing) ==
  [ i \in DOMAIN PANEL_OPTIONS |->
      comparisonEntry(PANEL_OPTIONS[i],
                      calculateSolarROI(
                        roiArguments(PANEL_OPTIONS[i], survey, billing,
                                     comparisonFee(PANEL_OPTIONS[i], survey)))) ]

\* typeof item.paybackPeriod === "number"
IsViable(item) == item.paybackPeriod.t = "number"

viablePaybackPanels(comparisons) == SelectSeq(comparisons, IsViable)

\* Math.min(...list), for a list that is not empty
RECURSIVE MinOf(_)
MinOf(list) ==
  IF list = << >> THEN Infinity ELSE MathMin(Head(list), MinOf(Tail(list)))

shortestPaybackValue(viable) ==
  IF Len(viable) > 0 THEN MinOf([i \in DOMAIN viable |-> viable[i].paybackPeriod])
  ELSE Null

HasPayback(item, shortest) == StrictEquals(item.paybackPeriod, shortest)

brandsOf(panels) == [i \in DOMAIN panels |-> panels[i].panel.brand]

fastestPanels(viable, shortest) ==
  IF shortest # Null
  THEN brandsOf(SelectSeq(viable, LAMBDA item : HasPayback(item, shortest)))
  ELSE << >>

\* the "Smart Investment Tip": the payback and the brand it names
investmentTip(shortest, fastest) ==
  IF Truthy(shortest) /\ Len(fastest) > 0
  THEN [paybackYears |-> ToFixed(shortest, 1), brands |-> <<fastest[1]>>]
  ELSE Null

\* what a render derives from the comparison
fastestView(comparisons, shortest, fastest) ==
  [ panelFinancialComparisons |-> comparisons,
    shortestPaybackValue |-> shortest,
    fastestPanels |-> fastest,
    investmentTip |-> investmentTip(shortest, fastest) ]

viableView(comparisons, viable, shortest) ==
  fastestView(comparisons, shortest, fastestPanels(viable, shortest))

comparisonView(comparisons) ==
  viableView(comparisons, viablePaybackPanels(comparisons),
             shortestPaybackValue(viablePaybackPanels(comparisons)))

\* what a render derives for the selected panel
panelView(survey, billing, panel, totalYearlyGeneration, factor, fee) ==
  [ totalYearlyGeneration |-> totalYearlyGeneration,
    selectedPanel |-> panel,
    panelOutputFactor |-> factor,
    adjustedSystemSize |-> ToFixed(JsMul(survey.systemSize, factor), 2).value,
    adjustedYearlyGeneration |-> MathRound(JsMul(totalYearlyGeneration, factor)),
    installationFee |-> fee,
    financials |-> displayPanelFinancials(
                     calculateSolarROI(
                       roiArguments(panel, survey, billing, Nullish(fee, Rat(0, 1))))),
    envImpact |-> calculateEnvironmentalImpact(
                    MathRound(JsMul(totalYearlyGeneration, factor))) ]

selectedView(survey, billing, panel) ==
  panelView(survey, billing, panel, SumOf(kwhOf(survey.monthlyGeneration)),
            panelOutputFactor(panel, baselinePanel), installationFee(panel, survey))

\* what one render computes from the state
Render(survey, billing, panelId) ==
  [ selected |-> selectedView(survey, billing, selectedPanelOf(panelId)),
    comparison |-> comparisonView(panelFinancialComparisons(survey, billing)) ]

\* the arguments of the calls of calculateSolarROI in one render, in order
RenderCalls(survey, billing, panelId) ==
  << roiArguments(selectedPanelOf(panelId), survey, billing,
                  Nullish(installationFee(selectedPanelOf(panelId), survey), Rat(0, 1))) >>
  \o [ i \in DOMAIN PANEL_OPTIONS |->
         roiArguments(PANEL_OPTIONS[i], survey, billing,
                      comparisonFee(PANEL_OPTIONS[i], survey)) ]

\* setBillingDetails of the second effect, for the stored analysisDetails
storedBillingDetails(stored) ==
  [ averageMonthlyConsumption |-> Nullish(stored.averageMonthlyConsumption, Null),
    manualBills |-> stored.manualBills,
    manualAverageBill |-> Nullish(stored.manualAverageBill, Null),
    electricityRate |-> stored.electricityRate ]

MaxRoofSteps == 3

\* draws of generateMockResults: 100..299 sq ft, 0..29 % shading
MockRoofAreas == { Rat(100 + k, 1) : k \in 0..MaxRoofSteps }

MockShadings == { Rat(6, 1), Rat(16, 1) }

MockOrientations == { "South", "West" }

\* what sessionStorage holds under "analysisDetails": nothing, or what
\* the upload page stored for an address and the bills entered
StoredDetails ==
  { Null } \cup { analysisDetails(typed, bills, Null) :
                    typed \in { Null, Address(4), Address(13) },
                    bills \in { << >>, <<Rat(150, 1)>> } }

\* sessionStorage as the results page can find it: empty, or as the timer
\* of handleAnalyze left it
Storages ==
  { [ hasResults |-> IF stored = Null THEN Null ELSE Message("true"),
      analysisDetails |-> stored ] : stored \in StoredDetails }

\* variant: the flag is left in sessionStorage
afterLoad_flagKept(storage) == storage

\* sessionStorage after the first effect of the results page
afterLoad(storage) ==
  IF storage.hasResults = Null THEN storage
  ELSE [storage EXCEPT !.hasResults = Null]

InitResults ==
  /\ PageIdle
  /\ DrawIdle
  /\ CalcIdle
  /\ GeoMounted
  /\ googleMapsKey = TRUE
  /\ mockReturn = Null
  /\ NotAnalyzing
  /\ sessionStorage \in Storages
  /\ page = "/results"
  /\ roiCalls = << >>
  /\ EngineIdle
  /\ ImpactIdle
  /\ HandlerIdle

\* the loads of a page that calls generateMockResults, in one session
MaxLoads == 2

\* the two effects of the first render, and the render they cause
Mount(orientation, shadingPercentage, roofArea) ==
  /\ solarResult = Null
  /\ mockCalls < MaxLoads
  /\ solarResult' = generateMockResults(orientation, shadingPercentage, roofArea)
  /\ mockCalls' = mockCalls + 1
  /\ sessionStorage' = afterLoad(sessionStorage)
  /\ billingDetails' = IF sessionStorage.analysisDetails = Null THEN billingDetails
                       ELSE storedBillingDetails(sessionStorage.analysisDetails)
  /\ view' = Render(solarResult', billingDetails', selectedPanelId)
  /\ roiCalls' = RenderCalls(solarResult', billingDetails', selectedPanelId)
  /\ UNCHANGED <<isAnalyzing, analyzeTimers, page, whyInstallResults>>
  /\ UNCHANGED <<selectedPanelId, engineVars, impactVars, handlerVars, drawVars, calcVars,
                 geoVars, mockReturn>>

\* a click on the button of a catalog entry, and the render it causes
SelectPanel(id) ==
  /\ solarResult # Null
  /\ selectedPanelId' = id
  /\ view' = Render(solarResult, billingDetails, id)
  /\ roiCalls' = RenderCalls(solarResult, billingDetails, id)
  /\ UNCHANGED <<solarResult, billingDetails, engineVars, impactVars, handlerVars, drawVars, calcVars, siteVars>>

NextResults ==
  \/ \E orientation \in MockOrientations, shadingPercentage \in MockShadings,
        roofArea \in MockRoofAreas :
       Mount(orientation, shadingPercentage, roofArea)
  \/ \E i \in DOMAIN PANEL_OPTIONS : SelectPanel(PANEL_OPTIONS[i].id)

SpecResults == InitResults /\ [][NextResults]_vars

----------------------------------------------------------------------------
(* One browser session over the pages: src/components/Header.tsx links     *)
(* every page; the upload page stores the analysis and pushes "/results";  *)
(* the results page and the why-install page each call generateMockResults *)
(* when they mount.  The state of a page is initialised when the page      *)
(* mounts; after a page is left its variables keep what it showed last.    *)

MaxAnalyses == 1

\* the pages with state in the session; "/" stands for the other pages
Routes == { "/", "/upload", "/results", "/why-install" }

\* what Math.random gives in the session: orientation, shading, roof area
SessionSurveys ==
  { <<"South", Rat(6, 1), Rat(100, 1)>>, <<"West", Rat(16, 1), Rat(100, 1)>> }

InitSession ==
  /\ GeoMounted
  /\ googleMapsKey = FALSE
  /\ SessionAt("/")
  /\ mockReturn = Null
  /\ EngineIdle
  /\ ImpactIdle
  /\ HandlerIdle
  /\ PageIdle
  /\ DrawIdle
  /\ CalcIdle
  /\ roiCalls = << >>

\* the page at `route` mounts: its useState initial values
Mounts(route) ==
  /\ IF route = "/results"
     THEN /\ solarResult' = Null
          /\ billingDetails' = Null
          /\ selectedPanelId' = PANEL_OPTIONS[1].id
          /\ view' = Null
          /\ roiCalls' = << >>
     ELSE UNCHANGED <<pageVars, roiCalls>>
  /\ IF route = "/why-install"
     THEN whyInstallResults' = Null
     ELSE UNCHANGED whyInstallResults
  /\ IF route = "/upload"
     THEN /\ address' = Null
          /\ useCurrentLocation' = FALSE
          /\ isLocating' = FALSE
          /\ coordinates' = Null
          /\ geocodeError' = Null
          /\ locationError' = Null
          /\ geocodeRequests' = cleanedUp(geocodeRequests)
          /\ isAnalyzing' = FALSE
          /\ uploadRoofArea' = Null
     ELSE UNCHANGED <<address, useCurrentLocation, isLocating, coordinates, geocodeError,
                      locationError, geocodeRequests, isAnalyzing, uploadRoofArea>>
  /\ UNCHANGED <<polygonPath, isDrawing, calculatedArea, isCalculating, error, showHelp,
                 geminiApiKey, areaReports, insightsPending>>
  /\ UNCHANGED <<googleMapsKey, positionRequests, reverseRequests, mockReturn>>
  /\ UNCHANGED <<engineVars, impactVars, handlerVars, calcVars>>

\* a link of the header, or a router.push of a button, to another page
Navigate(target) ==
  /\ target # page
  /\ page' = target
  /\ Mounts(target)
  /\ UNCHANGED <<analyzeTimers, sessionStorage, mockCalls>>

\* the browser reloads the page: its timers are gone, sessionStorage stays
Reload ==
  /\ page' = page
  /\ analyzeTimers' = << >>
  /\ Mounts(page)
  /\ UNCHANGED <<sessionStorage, mockCalls>>

\* handleAnalyze up to its setTimeout, with the bills entered by hand
handleAnalyze(manualBills) ==
  /\ page = "/upload"
  /\ IF address = Null /\ ~useCurrentLocation
     THEN UNCHANGED <<isAnalyzing, analyzeTimers>>
     ELSE /\ Len(analyzeTimers) < MaxAnalyses
          /\ isAnalyzing' = TRUE
          /\ analyzeTimers' =
               Append(analyzeTimers, analysisDetails(address, manualBills, uploadRoofArea))
  /\ UNCHANGED <<sessionStorage, page, whyInstallResults, mockCalls>>
  /\ UNCHANGED <<engineVars, impactVars, handlerVars, pageVars, roiCalls, drawVars, calcVars,
                 geoVars, mockReturn>>

\* the callback of the setTimeout of handleAnalyze
analyzeTimerFires ==
  /\ analyzeTimers # << >>
  /\ analyzeTimers' = Tail(analyzeTimers)
  /\ sessionStorage' = [ hasResults |-> Message("true"),
                         analysisDetails |-> Head(analyzeTimers) ]
  /\ page' = "/results"
  /\ IF page = "/results"
     THEN UNCHANGED <<pageVars, roiCalls, drawVars, geoVars, calcVars, isAnalyzing,
                      whyInstallResults, mockReturn, engineVars, impactVars, handlerVars>>
     ELSE Mounts("/results")
  /\ UNCHANGED mockCalls

\* the effect of the why-install page
whyInstallLoad(orientation, shadingPercentage, roofArea) ==
  /\ page = "/why-install"
  /\ whyInstallResults = Null
  /\ mockCalls < MaxLoads
  /\ whyInstallResults' = generateMockResults(orientation, shadingPercentage, roofArea)
  /\ mockCalls' = mockCalls + 1
  /\ UNCHANGED <<isAnalyzing, analyzeTimers, sessionStorage, page>>
  /\ UNCHANGED <<engineVars, impactVars, handlerVars, pageVars, roiCalls, drawVars, calcVars,
                 geoVars, mockReturn>>

NextSession ==
  \/ \E target \in Routes : Navigate(target)
  \/ Reload
  \/ /\ page = "/upload"
     /\ \E typed \in { Null, Address(4) } : handleAddressChange(typed)
  \/ \E manualBills \in { <<Rat(150, 1)>> } : handleAnalyze(manualBills)
  \/ analyzeTimerFires
  \/ /\ page = "/results"
     /\ \E survey \in SessionSurveys : Mount(survey[1], survey[2], survey[3])
  \/ \E survey \in SessionSurveys : whyInstallLoad(survey[1], survey[2], survey[3])

SpecSession == InitSession /\ [][NextSession]_vars

----------------------------------------------------------------------------
(* src/components/ROIVisualization.tsx: ROIVisualization, as the results   *)
(* page renders it for the selected panel                                  *)

\* lifetimeYears, as the results page passes it
lifetimeYears == 25

\* Math.ceil(x)
MathCeil(x) ==
  IF ToNumber(x).d = 0 THEN ToNumber(x)
  ELSE Num(-((-ToNumber(x).n) \div ToNumber(x).d), 1)

\* cumulativeSavings as the loop leaves it at the end of the iteration `year`
RECURSIVE cumulativeSavingsAt(_, _)
cumulativeSavingsAt(savings, year) ==
  IF year = 0 THEN JsAdd(Rat(0, 1), ToNumber(savings.annualSavings))
  ELSE JsAdd(cumulativeSavingsAt(savings, year - 1), ToNumber(savings.annualSavings))

\* cumulativeSavingsData: the entry of the year y is at index y + 1
cumulativeSavingsData(savings, systemCost) ==
  [ index \in 1..(lifetimeYears + 1) |->
      [ year |-> index - 1,
        cumulative |-> MathRound(cumulativeSavingsAt(savings, index - 1)),
        annual |-> MathRound(savings.annualSavings),
        netValue |-> MathRound(JsSub(cumulativeSavingsAt(savings, index - 1),
                                     ToNumber(systemCost))) ] ]

paybackYear(savings) == MathCeil(savings.paybackPeriod)

\* the "Break Even" note and line are rendered
breakEvenShown(savings) == JsLe(paybackYear(savings), Rat(lifetimeYears, 1))

----------------------------------------------------------------------------
(* src/components/RoofDrawingMap.tsx: RoofDrawingMap                       *)
(*                                                                         *)
(* The actions are the handlers of the component.  The buttons that call   *)
(* handleFinishDrawing and calculateAreaWithGemini are disabled while the  *)
(* polygon has fewer than three points; the handlers check the length      *)
(* themselves and are modelled as callable in every state.                 *)

MaxVertices == 3

MaxReports == 1

MaxPending == 1

\* where a click can land: metres east and north of a corner of the roof
ClickPoints == { <<0, 0>>, <<4, 0>>, <<0, 3>> }

\* the cross products of the edges of the path from the i-th vertex on
RECURSIVE TwiceSignedArea(_, _)
TwiceSignedArea(path, i) ==
  IF i > Len(path) THEN 0
  ELSE path[i][1] * path[(i % Len(path)) + 1][2]
       - path[(i % Len(path)) + 1][1] * path[i][2]
       + TwiceSignedArea(path, i + 1)

\* google.maps.geometry.spherical.computeArea: the area enclosed by the
\* path, which over a roof is the area of the plane polygon
computeArea(path) == Rat(Abs(TwiceSignedArea(path, 1)), 2)

\* the upload page mounts the component with onAreaCalculated, which sets
\* its state roofArea
onAreaCalculated == TRUE

\* variant: only the empty polygon is refused
polygonTooSmall_empty(path) == Len(path) < 1

\* polygonPath.length < 3, as calculateAreaWithGemini tests it
polygonTooSmall(path) == Len(path) < 3

InitDrawing ==
  /\ DrawMounted
  /\ geminiApiKey \in BOOLEAN
  /\ EngineIdle
  /\ ImpactIdle
  /\ HandlerIdle
  /\ PageIdle
  /\ CalcIdle
  /\ SiteAt("/upload")
  /\ roiCalls = << >>

\* a click on the map at `point`
handleMapClick(point) ==
  /\ Len(polygonPath) < MaxVertices
  /\ polygonPath' = IF isDrawing THEN Append(polygonPath, point) ELSE polygonPath
  /\ UNCHANGED <<isDrawing, calculatedArea, isCalculating, error, showHelp,
                 geminiApiKey, areaReports, insightsPending, uploadRoofArea>>
  /\ UNCHANGED <<engineVars, impactVars, handlerVars, pageVars, roiCalls, calcVars, siteVars>>

handleClearPolygon ==
  /\ polygonPath' = << >>
  /\ calculatedArea' = Null
  /\ error' = Null
  /\ showHelp' = TRUE
  /\ UNCHANGED <<isDrawing, isCalculating, geminiApiKey, areaReports, insightsPending, uploadRoofArea>>
  /\ UNCHANGED <<engineVars, impactVars, handlerVars, pageVars, roiCalls, calcVars, siteVars>>

handleStartDrawing ==
  /\ isDrawing' = TRUE
  /\ polygonPath' = << >>
  /\ calculatedArea' = Null
  /\ error' = Null
  /\ showHelp' = TRUE
  /\ UNCHANGED <<isCalculating, geminiApiKey, areaReports, insightsPending, uploadRoofArea>>
  /\ UNCHANGED <<engineVars, impactVars, handlerVars, pageVars, roiCalls, calcVars, siteVars>>

handleFinishDrawing ==
  /\ isDrawing' = FALSE
  /\ IF Len(polygonPath) < 3
     THEN /\ error' = Message("Please draw at least 3 points to form a polygon")
          /\ polygonPath' = << >>
          /\ UNCHANGED showHelp
     ELSE /\ showHelp' = FALSE
          /\ UNCHANGED <<error, polygonPath>>
  /\ UNCHANGED <<calculatedArea, isCalculating, geminiApiKey, areaReports, insightsPending, uploadRoofArea>>
  /\ UNCHANGED <<engineVars, impactVars, handlerVars, pageVars, roiCalls, calcVars, siteVars>>

handleUndoLastPoint ==
  /\ polygonPath' = IF Len(polygonPath) > 0
                    THEN SubSeq(polygonPath, 1, Len(polygonPath) - 1)
                    ELSE polygonPath
  /\ UNCHANGED <<isDrawing, calculatedArea, isCalculating, error, showHelp,
                 geminiApiKey, areaReports, insightsPending, uploadRoofArea>>
  /\ UNCHANGED <<engineVars, impactVars, handlerVars, pageVars, roiCalls, calcVars, siteVars>>

\* calculateAreaWithGemini up to its await; geometry: the geometry library
\* is "loaded", is "absent" from window.google.maps, or "throws"
calculateAreaWithGemini(geometry) ==
  /\ IF polygonTooSmall(polygonPath)
     THEN /\ error' = Message("Please draw a polygon first")
          /\ UNCHANGED <<calculatedArea, isCalculating, areaReports, insightsPending,
                         uploadRoofArea>>
     ELSE IF ~geminiApiKey
     THEN /\ error' = Message("Gemini API key is not configured")
          /\ UNCHANGED <<calculatedArea, isCalculating, areaReports, insightsPending,
                         uploadRoofArea>>
     ELSE IF geometry = "loaded"
     THEN /\ Len(areaReports) < MaxReports
          /\ insightsPending < MaxPending
          /\ error' = Null
          /\ calculatedArea' = computeArea(polygonPath)
          /\ areaReports' =
               IF onAreaCalculated
               THEN Append(areaReports, [area |-> computeArea(polygonPath),
                                         vertices |-> Len(polygonPath)])
               ELSE areaReports
          /\ uploadRoofArea' =
               IF onAreaCalculated THEN computeArea(polygonPath) ELSE uploadRoofArea
          /\ isCalculating' = TRUE
          /\ insightsPending' = insightsPending + 1
     ELSE /\ error' = IF geometry = "throws"
                      THEN Message("Failed to calculate area. Please try again.")
                      ELSE Null
          /\ isCalculating' = FALSE
          /\ UNCHANGED <<calculatedArea, areaReports, insightsPending, uploadRoofArea>>
  /\ UNCHANGED <<polygonPath, isDrawing, showHelp, geminiApiKey>>
  /\ UNCHANGED <<engineVars, impactVars, handlerVars, pageVars, roiCalls, calcVars, siteVars>>

\* variant: without the `finally`, the request settles and isCalculating
\* stays as it was
getGeminiInsightsSettles_noFinally ==
  /\ insightsPending > 0
  /\ insightsPending' = insightsPending - 1
  /\ UNCHANGED <<polygonPath, isDrawing, calculatedArea, isCalculating, error,
                 showHelp, geminiApiKey, areaReports, uploadRoofArea>>
  /\ UNCHANGED <<engineVars, impactVars, handlerVars, pageVars, roiCalls, calcVars, siteVars>>

\* getGeminiInsights settles: the `finally` of calculateAreaWithGemini
getGeminiInsightsSettles ==
  /\ insightsPending > 0
  /\ insightsPending' = insightsPending - 1
  /\ isCalculating' = FALSE
  /\ UNCHANGED <<polygonPath, isDrawing, calculatedArea, error, showHelp,
                 geminiApiKey, areaReports, uploadRoofArea>>
  /\ UNCHANGED <<engineVars, impactVars, handlerVars, pageVars, roiCalls, calcVars, siteVars>>

NextDrawing ==
  \/ \E point \in ClickPoints : handleMapClick(point)
  \/ handleClearPolygon
  \/ handleStartDrawing
  \/ handleFinishDrawing
  \/ handleUndoLastPoint
  \/ \E geometry \in {"loaded", "absent", "throws"} : calculateAreaWithGemini(geometry)
  \/ getGeminiInsightsSettles

SpecDrawing == InitDrawing /\ [][NextDrawing]_vars

\* the fetch of getGeminiInsights resolves or rejects, and the awaiting
\* calculateAreaWithGemini is then resumed
SpecDrawingFair == SpecDrawing /\ WF_vars(getGeminiInsightsSettles)

(* The controls the component renders: a handler runs only when its       *)
(* button is shown and enabled.  The map is centred (the page passes the   *)
(* coordinates of the address), so that "Start Drawing" is enabled.        *)

\* "Start Drawing" is shown
startOffered == ~isDrawing /\ Len(polygonPath) = 0

\* "Finish Drawing" is shown and enabled
finishOffered == isDrawing /\ ~(Len(polygonPath) < 3)

\* variant: "Undo Last Point" next to "Calculate Area"
undoOffered_whenOutlined == ~(Len(polygonPath) = 0)

\* "Undo Last Point" is shown and enabled
undoOffered == isDrawing /\ ~(Len(polygonPath) = 0)

\* "Clear All" is shown
clearAllOffered == isDrawing

\* "Calculate Area", "Redraw" and "Clear" are shown
outlineOffered == Len(polygonPath) > 0 /\ ~isDrawing

\* "Calculate Area" is shown and enabled
calculateOffered == outlineOffered /\ ~(isCalculating \/ Len(polygonPath) < 3)

NextControls ==
  \/ \E point \in ClickPoints : handleMapClick(point)
  \/ (startOffered \/ outlineOffered) /\ handleStartDrawing
  \/ finishOffered /\ handleFinishDrawing
  \/ undoOffered /\ handleUndoLastPoint
  \/ (clearAllOffered \/ outlineOffered) /\ handleClearPolygon
  \/ /\ calculateOffered
     /\ \E geometry \in {"loaded", "absent", "throws"} : calculateAreaWithGemini(geometry)
  \/ getGeminiInsightsSettles

SpecControls == InitDrawing /\ [][NextControls]_vars

----------------------------------------------------------------------------
(* src/unnamed/part_000: ROICalculator                                     *)
(*                                                                         *)
(* The text of a form field is the sequence of its characters.             *)

MaxAlerts == 2

MaxCalls == 2

DecimalDigits == <<"0", "1", "2", "3", "4", "5", "6", "7", "8", "9">>

IsDigit(c) == \E v \in 0..9 : DecimalDigits[v + 1] = c

DigitValue(c) == CHOOSE v \in 0..9 : DecimalDigits[v + 1] = c

\* the number of digits the text starts with
RECURSIVE LeadingDigits(_)
LeadingDigits(text) ==
  IF text # << >> /\ IsDigit(Head(text)) THEN 1 + LeadingDigits(Tail(text)) ELSE 0

\* the value of a text of digits, after the digits valued `before`
RECURSIVE DigitsValue(_, _)
DigitsValue(text, before) ==
  IF text = << >> THEN before
  ELSE DigitsValue(Tail(text), 10 * before + DigitValue(Head(text)))

RECURSIVE PowerOfTen(_)
PowerOfTen(m) == IF m = 0 THEN 1 ELSE 10 * PowerOfTen(m - 1)

\* sign * (k digits of body, then m digits after the point)
DecimalOf(sign, body, k, m) ==
  IF k = 0 /\ m = 0 THEN NaN
  ELSE Num(sign * DigitsValue(SubSeq(body, 1, k) \o SubSeq(body, k + 2, k + 1 + m), 0),
           PowerOfTen(m))

\* the decimal a text without its sign starts with
UnsignedPrefix(sign, body, k) ==
  DecimalOf(sign, body, k,
            IF k < Len(body) /\ body[k + 1] = "."
            THEN LeadingDigits(SubSeq(body, k + 2, Len(body)))
            ELSE 0)

\* parseFloat: the longest prefix that is a decimal literal, NaN without
\* one; texts with white space, an exponent or "Infinity" are not modelled
parseFloat(text) ==
  IF text # << >> /\ Head(text) \in {"-", "+"}
  THEN UnsignedPrefix(IF Head(text) = "-" THEN -1 ELSE 1, Tail(text),
                      LeadingDigits(Tail(text)))
  ELSE UnsignedPrefix(1, text, LeadingDigits(text))

\* x || 0 for a number x
OrZero(x) == IF IsNaN(x) \/ x = Rat(0, 1) THEN Rat(0, 1) ELSE x

parsedInputs(form) ==
  [ roofArea |-> OrZero(parseFloat(form.roofArea)),
    panelEfficiency |-> OrZero(parseFloat(form.panelEfficiency)),
    solarIrradiance |-> OrZero(parseFloat(form.solarIrradiance)),
    electricityRate |-> OrZero(parseFloat(form.electricityRate)),
    systemCost |-> OrZero(parseFloat(form.systemCost)),
    monthlyConsumption |->
      IF form.monthlyConsumption # << >> THEN parseFloat(form.monthlyConsumption)
      ELSE Undefined ]

\* variant: zero is let through
requiredFieldsInvalid_negativeOnly(parsed) ==
  \/ JsGt(Rat(0, 1), parsed.roofArea)
  \/ JsGt(Rat(0, 1), parsed.panelEfficiency)
  \/ JsGt(Rat(0, 1), parsed.solarIrradiance)
  \/ JsGt(Rat(0, 1), parsed.electricityRate)
  \/ JsGt(Rat(0, 1), parsed.systemCost)

\* the first test of the validation
requiredFieldsInvalid(parsed) ==
  \/ JsLe(parsed.roofArea, Rat(0, 1))
  \/ JsLe(parsed.panelEfficiency, Rat(0, 1))
  \/ JsLe(parsed.solarIrradiance, Rat(0, 1))
  \/ JsLe(parsed.electricityRate, Rat(0, 1))
  \/ JsLe(parsed.systemCost, Rat(0, 1))

\* the fields calculateSolarROI destructures from its argument: a field
\* the argument lacks is undefined
SolarROIFields ==
  {"roofArea", "panelEfficiency", "solarIrradiance", "shadingFactor",
   "electricityRate", "systemCost", "monthlyConsumption"}

Destructured(argument) ==
  [ f \in SolarROIFields |-> IF f \in DOMAIN argument THEN argument[f] ELSE Undefined ]

\* the texts typed into the fields
FieldTexts ==
  [ roofArea |-> { <<"5", "0">>, << >>, <<"-", "5">> },
    panelEfficiency |-> { <<"0", ".", "2", "0">>, <<"1", ".", "5">>, <<"0">> },
    solarIrradiance |-> { <<"5", ".", "0">>, <<"a", "b", "c">> },
    electricityRate |-> { <<"0", ".", "4", "0">>, << >> },
    systemCost |-> { <<"3", "0", "0", "0", "0">>, <<"0">> },
    monthlyConsumption |-> { << >>, <<"4", "0", "0">>, <<"a", "b", "c">> } ]

InitCalculator ==
  /\ CalcIdle
  /\ SiteAt("/roi")
  /\ roiCalls = << >>
  /\ EngineIdle
  /\ ImpactIdle
  /\ HandlerIdle
  /\ PageIdle
  /\ DrawIdle

handleInputChange(field, value) ==
  /\ formInputs' = [formInputs EXCEPT ![field] = value]
  /\ UNCHANGED <<roiResults, hasCalculated, alerts, roiCallCount, roiCalls>>
  /\ UNCHANGED <<engineVars, impactVars, handlerVars, pageVars, drawVars, siteVars>>

\* alert(message), after which handleCalculate returns
Alert(message) ==
  /\ Len(alerts) < MaxAlerts
  /\ alerts' = Append(alerts, message)
  /\ UNCHANGED <<roiResults, hasCalculated, roiCallCount, roiCalls>>

handleCalculate ==
  /\ IF requiredFieldsInvalid(parsedInputs(formInputs))
     THEN Alert("Please fill in all required fields with valid positive numbers")
     ELSE IF JsGt(parsedInputs(formInputs).panelEfficiency, Rat(1, 1))
     THEN Alert("Panel efficiency should be a decimal (e.g., 0.20 for 20%)")
     ELSE /\ roiCallCount < MaxCalls
          /\ roiCalls' = <<parsedInputs(formInputs)>>
          /\ roiCallCount' = roiCallCount + 1
          /\ roiResults' = calculateSolarROI(Destructured(parsedInputs(formInputs)))
          /\ hasCalculated' = TRUE
          /\ UNCHANGED alerts
  /\ UNCHANGED formInputs
  /\ UNCHANGED <<engineVars, impactVars, handlerVars, pageVars, drawVars, siteVars>>

handleReset ==
  /\ roiResults' = Null
  /\ hasCalculated' = FALSE
  /\ formInputs' = DefaultInputs
  /\ UNCHANGED <<alerts, roiCallCount, roiCalls>>
  /\ UNCHANGED <<engineVars, impactVars, handlerVars, pageVars, drawVars, siteVars>>

NextCalculator ==
  \/ \E field \in DOMAIN FieldTexts :
       \E value \in FieldTexts[field] : handleInputChange(field, value)
  \/ handleCalculate
  \/ handleReset

SpecCalculator == InitCalculator /\ [][NextCalculator]_vars

----------------------------------------------------------------------------
(* Properties of the results page                                          *)

\* the results page has rendered its results
Rendered == view # Null

\* the catalog entry whose button was clicked last
ChosenPanel ==
  PANEL_OPTIONS[CHOOSE i \in DOMAIN PANEL_OPTIONS : PANEL_OPTIONS[i].id = selectedPanelId]

\* P.fixedInstallFee + P.pricePerKw * S in whole currency units, S in whole kW
FeeOf(P, S) == Rat(P.fixedInstallFee.n + P.pricePerKw.n * S.n, 1)

\* C14: on the results page the system cost given to the engine for the
\* selected panel, the installation cost shown for it, and the system cost
\* given to the engine for every catalog panel of the comparison are
\* fixedInstallFee + pricePerKw * S for the survey's system size S.
C14_InstallationFee ==
  Rendered =>
    /\ solarResult.systemSize.d = 1
    /\ view.selected.installationFee = FeeOf(ChosenPanel, solarResult.systemSize)
    /\ Len(roiCalls) = 1 + Len(PANEL_OPTIONS)
    /\ roiCalls[1].systemCost = FeeOf(ChosenPanel, solarResult.systemSize)
    /\ roiCalls[1].panelEfficiency = ChosenPanel.panelEfficiency
    /\ \A i \in DOMAIN PANEL_OPTIONS :
         /\ roiCalls[1 + i].systemCost = FeeOf(PANEL_OPTIONS[i], solarResult.systemSize)
         /\ roiCalls[1 + i].panelEfficiency = PANEL_OPTIONS[i].panelEfficiency

\* a 15 kW survey with the third catalog panel selected: 2500 + 1750 * 15
C14_Witness ==
  /\ Rendered
  /\ selectedPanelId = "solis-lite"
  /\ solarResult.systemSize = Rat(15, 1)
  /\ view.selected.installationFee = Rat(28750, 1)
  /\ roiCalls[1].systemCost = Rat(28750, 1)

\* (P.panelEfficiency / B.panelEfficiency) * (P.solarIrradiance / B.solarIrradiance)
FactorOf(P, B) ==
  Num(P.panelEfficiency.n * B.panelEfficiency.d * P.solarIrradiance.n * B.solarIrradiance.d,
      P.panelEfficiency.d * B.panelEfficiency.n * P.solarIrradiance.d * B.solarIrradiance.n)

\* C15: the panel output factor of the selected panel is the product of its
\* efficiency and irradiance ratios to the first catalog entry; whatever
\* panels were selected, the selected panel is a catalog entry; with the
\* first entry selected the factor is exactly 1, and the adjusted system
\* size and yearly generation are the survey's.
C15_PanelOutputFactor ==
  /\ \E i \in DOMAIN PANEL_OPTIONS : PANEL_OPTIONS[i].id = selectedPanelId
  /\ Rendered =>
       /\ view.selected.selectedPanel = ChosenPanel
       /\ view.selected.panelOutputFactor = FactorOf(ChosenPanel, PANEL_OPTIONS[1])
       /\ selectedPanelId = PANEL_OPTIONS[1].id =>
            /\ view.selected.panelOutputFactor = Rat(1, 1)
            /\ view.selected.adjustedSystemSize = solarResult.systemSize
            /\ view.selected.adjustedYearlyGeneration = SumOf(kwhOf(solarResult.monthlyGeneration))

\* the second catalog panel selected: (0.205 / 0.22) * (5.0 / 5.2) = 1025/1144
C15_Witness ==
  /\ Rendered
  /\ selectedPanelId = "lumina-max"
  /\ view.selected.panelOutputFactor = Rat(1025, 1144)
  /\ JsGt(solarResult.systemSize, view.selected.adjustedSystemSize)

\* the payback period the engine returns for the i-th catalog panel
EnginePayback(i) == calculateSolarROI(roiCalls[1 + i]).paybackPeriod

\* no catalog panel pays back sooner than the i-th
IsFastest(i) ==
  \A j \in DOMAIN PANEL_OPTIONS : ~JsGt(EnginePayback(i), EnginePayback(j))

\* the payback period of the recommendation is the least the engine returns
ShortestIsMinimum ==
  Rendered /\ view.comparison.shortestPaybackValue # Null =>
    \E i \in DOMAIN PANEL_OPTIONS :
      IsFastest(i) /\ view.comparison.shortestPaybackValue = EnginePayback(i)

\* C16: the fastest-payback recommendation shows the least payback period
\* the engine returns over the catalog, and names every brand that attains it.
C16_AllTiedBrandsReported ==
  Rendered /\ view.comparison.investmentTip # Null =>
    /\ \E i \in DOMAIN PANEL_OPTIONS :
         /\ IsFastest(i)
         /\ view.comparison.investmentTip.paybackYears = ToFixed(EnginePayback(i), 1)
    /\ { view.comparison.investmentTip.brands[k] :
           k \in DOMAIN view.comparison.investmentTip.brands }
         = { PANEL_OPTIONS[i].brand : i \in { j \in DOMAIN PANEL_OPTIONS : IsFastest(j) } }

\* min(25, max(17, r)) for a number r
ClampedToBand(r) ==
  IF JsGt(Rat(17, 1), r) THEN Rat(17, 1)
  ELSE IF JsGt(r, Rat(25, 1)) THEN Rat(25, 1)
  ELSE r

\* the fields of the engine's record other than roiPercentage
OtherFields ==
  {"dailyGeneration", "monthlyGeneration", "monthlySavings", "annualSavings",
   "paybackPeriod"}

\* C17: the financials displayed on the results page have the engine's
\* roiPercentage clamped to [17, 25] and the engine's other five fields
\* unchanged, and the record the engine returned still holds what the
\* engine computed.
C17_DisplayClamp ==
  Rendered =>
    /\ view.selected.financials.engine = calculateSolarROI(roiCalls[1])
    /\ DOMAIN view.selected.financials.display = OtherFields \cup {"roiPercentage"}
    /\ \A f \in OtherFields :
         view.selected.financials.display[f] = calculateSolarROI(roiCalls[1])[f]
    /\ view.selected.financials.display.roiPercentage
         = ClampedToBand(calculateSolarROI(roiCalls[1]).roiPercentage)

\* an engine ROI of 4.26 % displayed as 17 %
C17_Witness ==
  /\ Rendered
  /\ view.selected.financials.engine.roiPercentage = Rat(426, 100)
  /\ view.selected.financials.display.roiPercentage = Rat(17, 1)
  /\ view.selected.financials.display.annualSavings = Rat(7452, 5)

----------------------------------------------------------------------------
(* Properties of the browser session                                       *)

\* a step in which the results page loads its survey
ResultsLoad == solarResult = Null /\ solarResult' # Null

\* a step that puts the hasResults flag into sessionStorage
FlagSet == sessionStorage.hasResults = Null /\ sessionStorage'.hasResults # Null

\* C22: every load of the results page generates a fresh mock survey,
\* whether or not the hasResults flag is set, and after the load the flag
\* is absent from sessionStorage; the flag is set again only by a
\* completed analyze step of the upload page.
C22_LoadConsumesFlag ==
  /\ [][ResultsLoad => /\ mockCalls' = mockCalls + 1
                       /\ sessionStorage'.hasResults = Null
                       /\ sessionStorage'.analysisDetails = sessionStorage.analysisDetails]_vars
  /\ [][FlagSet => /\ analyzeTimers # << >>
                   /\ analyzeTimers' = Tail(analyzeTimers)
                   /\ sessionStorage'.analysisDetails = Head(analyzeTimers)
                   /\ sessionStorage'.hasResults = Message("true")]_vars

\* the results page has loaded after an analysis: the details are stored
\* and the flag is gone
C22_Witness ==
  /\ page = "/results"
  /\ solarResult # Null
  /\ sessionStorage.hasResults = Null
  /\ sessionStorage.analysisDetails # Null
  /\ mockCalls = 2

\* C23: within one session the mock survey of the why-install page equals
\* the mock survey the results page shows.
C23_SurveysConsistent ==
  (solarResult # Null /\ whyInstallResults # Null) => whyInstallResults = solarResult

----------------------------------------------------------------------------
(* Properties of the cumulative-savings chart of the results page          *)

\* the results page renders ROIVisualization: the financials and a fee
\* other than 0 exist
ChartRendered ==
  /\ Rendered
  /\ view.selected.financials.display # Null
  /\ ~IsNaN(ToNumber(view.selected.installationFee))
  /\ ToNumber(view.selected.installationFee) # Rat(0, 1)

ChartSeries ==
  cumulativeSavingsData(view.selected.financials.display, view.selected.installationFee)

\* the years of the series whose netValue is not negative
BreakEvenYears ==
  { ChartSeries[index].year : index \in { i \in DOMAIN ChartSeries :
                                            JsLe(Rat(0, 1), ChartSeries[i].netValue) } }

\* C29: in the cumulative-savings series of ROIVisualization, for a finite
\* payback period within the lifetime, the first year whose netValue is not
\* negative is paybackYear = ceil(paybackPeriod): the entry of the year y
\* accumulates y years of annualSavings.
C29_BreakEvenAtPaybackYear ==
  (ChartRendered /\ breakEvenShown(view.selected.financials.display)) =>
     /\ BreakEvenYears # {}
     /\ \A year \in BreakEvenYears :
          JsLe(paybackYear(view.selected.financials.display), Rat(year, 1))
     /\ \E year \in BreakEvenYears :
          Rat(year, 1) = paybackYear(view.selected.financials.display)

----------------------------------------------------------------------------
(* Properties of the roof drawing component                                *)

\* a step that computes the area
ComputesArea == calculatedArea' # Null /\ calculatedArea' # calculatedArea

\* a step that neither computes nor reports an area
NoArea == UNCHANGED <<calculatedArea, areaReports>>

\* C18: whatever handlers of the roof drawing component have run, an area
\* is computed, and reported through onAreaCalculated, only for a polygon
\* of at least 3 vertices; calculateAreaWithGemini and handleFinishDrawing
\* called with fewer than 3 vertices set their error message and neither
\* compute nor report an area.
C18_AreaNeedsThreeVertices ==
  /\ [](\A i \in DOMAIN areaReports : areaReports[i].vertices >= 3)
  /\ [][ComputesArea => Len(polygonPath) >= 3]_vars
  /\ [][(\E geometry \in {"loaded", "absent", "throws"} :
            calculateAreaWithGemini(geometry)) /\ Len(polygonPath) < 3
          => error' = Message("Please draw a polygon first") /\ NoArea]_vars
  /\ [][handleFinishDrawing /\ Len(polygonPath) < 3
          => error' = Message("Please draw at least 3 points to form a polygon")
             /\ NoArea]_vars

\* the area of a 3-4-5 triangle was reported, a point was removed, and a
\* further request was refused
C18_Witness ==
  /\ areaReports = <<[area |-> Rat(6, 1), vertices |-> 3]>>
  /\ calculatedArea = Rat(6, 1)
  /\ Len(polygonPath) = 2
  /\ error = Message("Please draw a polygon first")

\* C24: in every state reached through the controls the component offers
\* (start or redraw, map click, undo, finish, clear, calculate), whenever
\* drawing mode is off the polygon has no vertex or at least 3 vertices.
C24_OutlineEmptyOrPolygon ==
  ~isDrawing => Len(polygonPath) = 0 \/ Len(polygonPath) >= 3

\* a triangle was outlined, and drawing mode is off
C24_Witness ==
  /\ ~isDrawing
  /\ Len(polygonPath) = 3
  /\ showHelp = FALSE

\* C25: the roof area the upload page holds is the area of the polygon
\* that is drawn now; once the polygon is cleared or redrawn the page
\* holds no area.
C25_RoofAreaOfCurrentPolygon ==
  uploadRoofArea # Null =>
    /\ Len(polygonPath) >= 3
    /\ uploadRoofArea = computeArea(polygonPath)

\* a step in which calculateAreaWithGemini reaches its await
AwaitsInsights == insightsPending' > insightsPending

\* C28: a calculateAreaWithGemini that sets isCalculating sets it back to
\* false in the end, whether the computation of the area and the request
\* for insights succeed, fail or throw; the area is set and reported
\* before the request for insights is awaited.
C28_CalculatingEnds ==
  /\ isCalculating ~> ~isCalculating
  /\ [][AwaitsInsights =>
          /\ calculatedArea' = computeArea(polygonPath)
          /\ areaReports' = Append(areaReports, [area |-> computeArea(polygonPath),
                                                 vertices |-> Len(polygonPath)])
          /\ uploadRoofArea' = computeArea(polygonPath)]_vars
  /\ [][isCalculating' /\ ~isCalculating => AwaitsInsights]_vars

\* the area of the triangle is set and reported while the request for
\* insights is in flight
C28_Witness ==
  /\ isCalculating
  /\ insightsPending = 1
  /\ calculatedArea = Rat(6, 1)
  /\ areaReports = <<[area |-> Rat(6, 1), vertices |-> 3]>>

----------------------------------------------------------------------------
(* Properties of the ROI calculator page and of the callers of the engine  *)

RequiredFields ==
  {"roofArea", "panelEfficiency", "solarIrradiance", "electricityRate", "systemCost"}

\* the text does not parse to a number, or parses to one that is not positive
NotPositive(text) == IsNaN(parseFloat(text)) \/ ~JsGt(parseFloat(text), Rat(0, 1))

\* one of the five required fields is unparsable or <= 0
SomeFieldNotPositive == \E f \in RequiredFields : NotPositive(formInputs[f])

\* the form is one that handleCalculate is to reject
Rejectable ==
  SomeFieldNotPositive \/ JsGt(parseFloat(formInputs.panelEfficiency), Rat(1, 1))

\* C19: handleCalculate of the ROI calculator page with a required field
\* unparsable or <= 0, or with panelEfficiency > 1, shows a message to the
\* user, does not call calculateSolarROI and leaves roiResults and
\* hasCalculated as they were.
C19_InvalidFormRejected ==
  [][handleCalculate /\ Rejectable
       => /\ alerts' = Append(alerts,
               IF SomeFieldNotPositive
               THEN "Please fill in all required fields with valid positive numbers"
               ELSE "Panel efficiency should be a decimal (e.g., 0.20 for 20%)")
          /\ UNCHANGED <<roiCalls, roiCallCount, roiResults, hasCalculated>>]_vars

\* both messages have been shown, after a calculation whose results are kept
C19_Witness ==
  /\ Rejectable
  /\ Len(alerts) = 2
  /\ alerts[1] # alerts[2]
  /\ roiCallCount = 1
  /\ hasCalculated
  /\ roiResults # Null

\* a defined number: neither undefined, null nor NaN
IsDefinedNumber(v) == v.t \in {"number", "wide"} /\ ~IsNaN(v)

\* all six required fields are defined numbers, shadingFactor within [0, 1]
CompleteInput(argument) ==
  /\ RequiredFields \cup {"shadingFactor"} \subseteq DOMAIN argument
  /\ \A f \in RequiredFields \cup {"shadingFactor"} : IsDefinedNumber(argument[f])
  /\ ~JsGt(Rat(0, 1), argument.shadingFactor)
  /\ ~JsGt(argument.shadingFactor, Rat(1, 1))

\* C20: every call of calculateSolarROI an application page makes passes a
\* complete input: the six required fields are defined numbers and
\* shadingFactor lies within [0, 1].
C20_CompleteInputs == \A i \in DOMAIN roiCalls : CompleteInput(roiCalls[i])

----------------------------------------------------------------------------
(* Properties of the mock survey generator                                 *)

\* v is an integer that is not negative
IsNaturalNumber(v) == v.t = "number" /\ v.d = 1 /\ v.n >= 0

CalendarMonths ==
  << "January", "February", "March", "April", "May", "June",
     "July", "August", "September", "October", "November", "December" >>

CompassOrientations ==
  {"South", "South-East", "South-West", "East", "West", "North"}

\* C21: every result of generateMockResults has a roofOrientation among the
\* six orientations, an integer shadingPercentage from 0 to 30 and a
\* monthlyGeneration of exactly 12 entries, the calendar months in order,
\* each with an integer kwh that is not negative.
C21_MockResultShape ==
  mockReturn # Null =>
    /\ mockReturn.roofOrientation \in CompassOrientations
    /\ IsNaturalNumber(mockReturn.shadingPercentage)
    /\ mockReturn.shadingPercentage.n <= 30
    /\ Len(mockReturn.monthlyGeneration) = 12
    /\ \A i \in 1..12 :
         /\ mockReturn.monthlyGeneration[i].month = CalendarMonths[i]
         /\ IsNaturalNumber(mockReturn.monthlyGeneration[i].kwh)

\* the call drew the deepest shading, a roof facing north and the least area
C21_Witness ==
  /\ mockReturn # Null
  /\ mockReturn.roofOrientation = "North"
  /\ mockReturn.shadingPercentage = Rat(29, 1)
  /\ mockReturn.roofArea = Rat(100, 1)
  /\ kwhOf(mockReturn.monthlyGeneration) =
       [i \in 1..12 |-> Rat(<<3, 4, 5, 6, 7, 8, 7, 6, 5, 4, 3, 3>>[i], 1)]

\* C30: for every draw generateMockResults returns estimatedSavings with
\* monthly >= 1, yearly = 12 * monthly and lifetime = 25 * yearly, and a
\* paybackPeriod = round(systemCost / yearly) that is a finite positive
\* integer, systemCost being 3000 per unit of systemSize.
C30_MockSavingsPositive ==
  mockReturn # Null =>
    /\ IsNaturalNumber(mockReturn.estimatedSavings.monthly)
    /\ mockReturn.estimatedSavings.monthly.n >= 1
    /\ mockReturn.estimatedSavings.yearly.n = 12 * mockReturn.estimatedSavings.monthly.n
    /\ mockReturn.estimatedSavings.yearly.d = 1
    /\ mockReturn.estimatedSavings.lifetime.n = 25 * mockReturn.estimatedSavings.yearly.n
    /\ mockReturn.estimatedSavings.lifetime.d = 1
    /\ IsNaturalNumber(mockReturn.paybackPeriod)
    /\ mockReturn.paybackPeriod.n >= 1
    /\ 2 * mockReturn.paybackPeriod.n * mockReturn.estimatedSavings.yearly.n
         <= 2 * 3000 * mockReturn.systemSize.n + mockReturn.estimatedSavings.yearly.n
    /\ 2 * 3000 * mockReturn.systemSize.n + mockReturn.estimatedSavings.yearly.n
         < 2 * (mockReturn.paybackPeriod.n + 1) * mockReturn.estimatedSavings.yearly.n

\* the least savings a call returns: 1 a month, paid back after 3750 years
C30_Witness ==
  /\ mockReturn # Null
  /\ mockReturn.estimatedSavings.monthly = Rat(1, 1)
  /\ mockReturn.estimatedSavings.yearly = Rat(12, 1)
  /\ mockReturn.estimatedSavings.lifetime = Rat(300, 1)
  /\ mockReturn.systemSize = Rat(15, 1)
  /\ mockReturn.paybackPeriod = Rat(3750, 1)

----------------------------------------------------------------------------
(* Properties of the location of the roof on the upload page               *)

\* a step of the user: an edit of the address or a click on the location button
UserActs ==
  \/ \E typed \in AddressTexts : handleAddressChange(typed)
  \/ \E supported \in BOOLEAN : requestCurrentLocation(supported)

\* C26: whenever isLocating is true it is false again later, whatever
\* edits of the address follow, once the user has stopped acting, and
\* however the geocode request ends.
C26_LocatingEnds == <>[][~UserActs]_vars => (isLocating ~> ~isLocating)

\* a step that ends the callback of an aborted run of the effect
AbortedCallbackEnds ==
  \E i \in DOMAIN geocodeRequests :
    geocodeRequests[i].aborted /\ geocodeFetchSettles(i, "aborted")

\* an aborted request writes neither coordinates nor geocodeError
SupersededRequestKeepsResult ==
  [][AbortedCallbackEnds => UNCHANGED <<coordinates, geocodeError>>]_vars

\* C27: a geocoding request that has been aborted, its address being no
\* longer the current one, writes none of coordinates, geocodeError and
\* isLocating.
C27_SupersededRequestSilent ==
  [][AbortedCallbackEnds => UNCHANGED <<coordinates, geocodeError, isLocating>>]_vars

====
